---- MODULE Spec2Model ----
(***************************************************************************)
(* addressli: CSV upload -> column mapping -> sequential, rate-limited     *)
(* geocoding of every row -> GeoJSON export.                               *)
(*                                                                         *)
(* Strings whose content the code inspects (cell values, addresses) are    *)
(* sequences of one-character strings, so that trim() and join() are       *)
(* computed.  Column names and messages are opaque strings.  Numbers       *)
(* returned by the provider arrive as text and go through ParseFloat.      *)
(***************************************************************************)
EXTENDS Integers, Sequences, FiniteSets, TLC

\* ---------------------------------------------------------------- bounds
\* Largest number of data rows in an uploaded file.
MaxRows == 12
\* Granularity, in ms, with which the model lets time pass on a pending timer.
TickMs == 500
\* Longest list of ProcessedAddress records handed to the pure functions.
MaxList == 3
\* Messages in the error list before the start handler is called once more.
MaxErrors == 3

\* ------------------------------------------------------ program constants
RATE_LIMIT_DELAY == 1000
ProgressBatch == 10

\* -------------------------------------------------------------- JS values
\* An optional value (a field that may be undefined, a result that may be
\* null) is a sequence of length 0 or 1.
None == <<>>
Some(v) == <<v>>

\* Truthiness of an optional string, as tested by `x &&`, `!x`, `x ||`:
\* undefined and the empty string are falsy.
TruthyStr(x) == x # None /\ x[1] # ""

Max(a, b) == IF a >= b THEN a ELSE b

\* ------------------------------------------------------------ String.trim
RECURSIVE TrimLeft(_)
TrimLeft(s) == IF s = <<>> THEN s
               ELSE IF Head(s) = " " THEN TrimLeft(Tail(s)) ELSE s

RECURSIVE TrimRight(_)
TrimRight(s) == IF s = <<>> THEN s
                ELSE IF s[Len(s)] = " " THEN TrimRight(SubSeq(s, 1, Len(s) - 1)) ELSE s

Trim(s) == TrimRight(TrimLeft(s))

\* Array.join(sep) on a sequence of strings.
RECURSIVE Join(_, _)
Join(parts, sep) == IF parts = <<>> THEN <<>>
                    ELSE IF Len(parts) = 1 THEN parts[1]
                    ELSE parts[1] \o sep \o Join(Tail(parts), sep)

\* row[column]: undefined when the row has no such key.
Get(row, col) == IF col \in DOMAIN row THEN Some(row[col]) ELSE None

\* --------------------------------------------------------------- geocoding
\* Mutant: parts are kept without looking at their trimmed value.
DefinedOnly(part) == part # None

\* buildAddressString(street, zipCode, city, country): keep the parts whose
\* trimmed value is non-empty, trim them, join with ", ".
DefinedAndNonBlank(part) == part # None /\ Trim(part[1]) # <<>>

\* Mutant: the postal code is put before the street.
buildAddressStringZipFirst(street, zipCode, city, country) ==
  LET parts == SelectSeq(<<zipCode, street, city, country>>, DefinedAndNonBlank)
      trimmed == [k \in 1..Len(parts) |-> Trim(parts[k][1])]
  IN  Join(trimmed, <<",", " ">>)

buildAddressString(street, zipCode, city, country) ==
  LET parts == SelectSeq(<<street, zipCode, city, country>>, DefinedAndNonBlank)
      trimmed == [k \in 1..Len(parts) |-> Trim(parts[k][1])]
  IN  Join(trimmed, <<",", " ">>)

\* parseFloat on the coordinate texts the provider sends.
ParseFloat(text) ==
  CASE text = "40.0" -> 40
    [] text = "-75.0" -> -75
    [] text = "52.5" -> 52
    [] text = "13.4" -> 13

\* What fetch()/response.json() can do for one request.
\*   network  : fetch rejects
\*   status   : a response with ok = false
\*   badjson  : ok, but response.json() rejects
\*   nullbody : ok, and json() yields null
\*   body     : ok, and json() yields the array `data`
\* The address components of an item: road, house number and city, or none.
Address1 == ("road" :> <<"E", "l", "m", " ">>) @@ ("house_number" :> <<"5">>) @@ ("city" :> <<"U", "l", "m">>)
Item1 == [lat |-> "40.0", lon |-> "-75.0", display_name |-> Some("Springfield"),
          address |-> Some(Address1)]
Item2 == [lat |-> "52.5", lon |-> "13.4", display_name |-> None, address |-> None]

Responses ==
  { [kind |-> "network", data |-> <<>>], [kind |-> "status", data |-> <<>>],
    [kind |-> "badjson", data |-> <<>>], [kind |-> "nullbody", data |-> <<>>],
    [kind |-> "body", data |-> <<>>],
    [kind |-> "body", data |-> <<Item1>>],
    [kind |-> "body", data |-> <<Item2, Item1>>] }

\* A settled promise.
Fulfilled(v) == [state |-> "fulfilled", value |-> v, isError |-> FALSE, message |-> ""]
Rejected(isErr, msg) == [state |-> "rejected", value |-> None, isError |-> isErr, message |-> msg]

\* The try block of geocodeAddress once the request has settled: either it
\* throws (fetch rejected, `!response.ok`, json() rejected) or it returns the
\* parsed first item, or null for an empty or null body.
GeocodeTry(resp) ==
  IF resp.kind = "network" THEN [thrown |-> TRUE, message |-> "Network error", value |-> None]
  ELSE IF resp.kind = "status" THEN [thrown |-> TRUE, message |-> "HTTP error! status", value |-> None]
  ELSE IF resp.kind = "badjson" THEN [thrown |-> TRUE, message |-> "Unexpected token", value |-> None]
  ELSE IF resp.kind = "body" /\ Len(resp.data) > 0
       THEN LET result == resp.data[1]
            IN  [thrown |-> FALSE, message |-> "",
                 value |-> Some([lat |-> ParseFloat(result.lat),
                                 lon |-> ParseFloat(result.lon),
                                 display_name |-> result.display_name,
                                 address |-> result.address])]
       ELSE [thrown |-> FALSE, message |-> "", value |-> None]

\* Mutant: what the try block throws is thrown on.
GeocodeSettleRethrows(resp) ==
  LET t == GeocodeTry(resp)
  IN  IF t.thrown THEN Rejected(TRUE, t.message) ELSE Fulfilled(t.value)

\* Mutant: a rejected fetch is thrown on, other failures are caught.
GeocodeSettleRethrowsNetwork(resp) ==
  LET t == GeocodeTry(resp)
  IN  IF t.thrown /\ resp.kind = "network" THEN Rejected(TRUE, t.message)
      ELSE IF t.thrown THEN Fulfilled(None) ELSE Fulfilled(t.value)

\* How the promise of geocodeAddress settles for a request that settled with
\* resp: whatever the try block throws is caught and null is returned.
GeocodeSettle(resp) ==
  LET t == GeocodeTry(resp)
  IN  IF t.thrown THEN Fulfilled(None) ELSE Fulfilled(t.value)

\* geocodeAddress's guard: a blank address returns null before any request.
GeocodeSkips(address) == Trim(address) = <<>>

\* Mutant: no time is waited.
NoRateLimitWait == RATE_LIMIT_DELAY - RATE_LIMIT_DELAY

\* The delay geocodeAddressWithRateLimit awaits after geocodeAddress.
RateLimitWait == RATE_LIMIT_DELAY

\* --------------------------------------------------------------- csvParser
\* String.toLowerCase, character by character.
ToLowerChar(c) ==
  CASE c = "A" -> "a"
    [] c = "B" -> "b"
    [] c = "C" -> "c"
    [] c = "D" -> "d"
    [] c = "E" -> "e"
    [] c = "F" -> "f"
    [] c = "G" -> "g"
    [] c = "H" -> "h"
    [] c = "I" -> "i"
    [] c = "J" -> "j"
    [] c = "K" -> "k"
    [] c = "L" -> "l"
    [] c = "M" -> "m"
    [] c = "N" -> "n"
    [] c = "O" -> "o"
    [] c = "P" -> "p"
    [] c = "Q" -> "q"
    [] c = "R" -> "r"
    [] c = "S" -> "s"
    [] c = "T" -> "t"
    [] c = "U" -> "u"
    [] c = "V" -> "v"
    [] c = "W" -> "w"
    [] c = "X" -> "x"
    [] c = "Y" -> "y"
    [] c = "Z" -> "z"
    [] c = "Ä" -> "ä"
    [] c = "Ö" -> "ö"
    [] c = "Ü" -> "ü"
    [] OTHER -> c

ToLowerCase(s) == [k \in 1..Len(s) |-> ToLowerChar(s[k])]

\* String.includes.
Includes(s, p) == \E k \in 0..(Len(s) - Len(p)) : SubSeq(s, k + 1, k + Len(p)) = p

\* Array.findIndex, 1-based; 0 when no element satisfies Test.
FindIndex(seq, Test(_)) ==
  IF \E k \in 1..Len(seq) : Test(seq[k])
  THEN CHOOSE k \in 1..Len(seq) : Test(seq[k]) /\ \A j \in 1..(k - 1) : ~Test(seq[j])
  ELSE 0

zipPatterns ==
  << <<"p", "l", "z">>,
     <<"p", "o", "s", "t", "l", "e", "i", "t", "z", "a", "h", "l">>,
     <<"z", "i", "p">>,
     <<"z", "i", "p", "c", "o", "d", "e">>,
     <<"z", "i", "p", " ", "c", "o", "d", "e">>,
     <<"p", "o", "s", "t", "a", "l", " ", "c", "o", "d", "e">>,
     <<"p", "o", "s", "t", "a", "l", "c", "o", "d", "e">>,
     <<"z", "i", "p", "-", "c", "o", "d", "e">>,
     <<"p", "o", "s", "t", " ", "c", "o", "d", "e">>,
     <<"p", "o", "s", "t", "c", "o", "d", "e">>,
     <<"p", "o", "s", "t", "a", "l", "_", "c", "o", "d", "e">> >>

streetPatterns ==
  << <<"s", "t", "r", "a", "ß", "e">>,
     <<"s", "t", "r", "a", "s", "s", "e">>,
     <<"s", "t", "r">>,
     <<"s", "t", "r", "e", "e", "t">>,
     <<"a", "d", "d", "r", "e", "s", "s">>,
     <<"a", "d", "r", "e", "s", "s", "e">>,
     <<"a", "n", "s", "c", "h", "r", "i", "f", "t">>,
     <<"h", "a", "u", "s", "n", "u", "m", "m", "e", "r">>,
     <<"s", "t", "r", "e", "e", "t", "a", "d", "d", "r", "e", "s", "s">>,
     <<"s", "t", "r", "e", "e", "t", " ", "a", "d", "d", "r", "e", "s", "s">>,
     <<"s", "t", "r", "e", "e", "t", "_", "a", "d", "d", "r", "e", "s", "s">>,
     <<"a", "d", "d", "r">>,
     <<"s", "t", "r", "a", "s", "s", "e", "_", "h", "a", "u", "s", "n", "u", "m", "m", "e", "r">>,
     <<"s", "t", "r", "a", "ß", "e", "_", "h", "a", "u", "s", "n", "u", "m", "m", "e", "r">>,
     <<"s", "t", "r", "a", "ß", "e", "u", "n", "d", "n", "u", "m", "m", "e", "r">>,
     <<"a", "d", "d", "r", "e", "s", "s", "l", "i", "n", "e">>,
     <<"a", "d", "d", "r", "e", "s", "s", " ", "l", "i", "n", "e">> >>

cityPatterns ==
  << <<"o", "r", "t">>,
     <<"s", "t", "a", "d", "t">>,
     <<"c", "i", "t", "y">>,
     <<"t", "o", "w", "n">>,
     <<"p", "l", "a", "c", "e">>,
     <<"g", "e", "m", "e", "i", "n", "d", "e">>,
     <<"m", "u", "n", "i", "c", "i", "p", "a", "l", "i", "t", "y">>,
     <<"o", "r", "t", "s", "c", "h", "a", "f", "t">>,
     <<"w", "o", "h", "n", "o", "r", "t">>,
     <<"l", "o", "c", "a", "l", "i", "t", "y">>,
     <<"l", "o", "c", "a", "t", "i", "o", "n">>,
     <<"s", "t", "a", "n", "d", "o", "r", "t">> >>

countryPatterns ==
  << <<"l", "a", "n", "d">>,
     <<"c", "o", "u", "n", "t", "r", "y">>,
     <<"s", "t", "a", "a", "t">>,
     <<"n", "a", "t", "i", "o", "n">>,
     <<"l", "ä", "n", "d", "e", "r", "c", "o", "d", "e">>,
     <<"c", "o", "u", "n", "t", "r", "y", " ", "c", "o", "d", "e">>,
     <<"c", "o", "u", "n", "t", "r", "y", "_", "c", "o", "d", "e">>,
     <<"c", "o", "u", "n", "t", "r", "y", "c", "o", "d", "e">>,
     <<"i", "s", "o", "_", "c", "o", "u", "n", "t", "r", "y">>,
     <<"i", "s", "o", " ", "c", "o", "u", "n", "t", "r", "y">> >>

\* Mutant: one pass over the patterns, in which a header matches a pattern
\* when it is equal to it or contains it.
findBestMatchSinglePass(hdrs, patterns) ==
  LET normalizedHeaders == [k \in 1..Len(hdrs) |-> Trim(ToLowerCase(hdrs[k]))]
      MatchAt(p) == LET Has(h) == h = p \/ Includes(h, p) IN FindIndex(normalizedHeaders, Has)
      HasMatch(p) == MatchAt(p) # 0
      q == FindIndex(patterns, HasMatch)
  IN  IF q # 0 THEN Some(hdrs[MatchAt(patterns[q])]) ELSE None

\* Mutant: the header is returned as it was compared, lower-cased and
\* trimmed.
findBestMatchNormalized(hdrs, patterns) ==
  LET normalizedHeaders == [k \in 1..Len(hdrs) |-> Trim(ToLowerCase(hdrs[k]))]
      ExactAt(p) == LET Is(h) == h = p IN FindIndex(normalizedHeaders, Is)
      PartialAt(p) == LET Has(h) == Includes(h, p) IN FindIndex(normalizedHeaders, Has)
      HasExact(p) == ExactAt(p) # 0
      HasPartial(p) == PartialAt(p) # 0
      e == FindIndex(patterns, HasExact)
      q == FindIndex(patterns, HasPartial)
  IN  IF e # 0 THEN Some(normalizedHeaders[ExactAt(patterns[e])])
      ELSE IF q # 0 THEN Some(normalizedHeaders[PartialAt(patterns[q])])
      ELSE None

\* findBestMatch: the first pattern with an exact match decides; failing
\* that, the first pattern contained in some header decides.  The header
\* returned is the original one, not the normalised one.
findBestMatch(hdrs, patterns) ==
  LET normalizedHeaders == [k \in 1..Len(hdrs) |-> Trim(ToLowerCase(hdrs[k]))]
      ExactAt(p) == LET Is(h) == h = p IN FindIndex(normalizedHeaders, Is)
      PartialAt(p) == LET Has(h) == Includes(h, p) IN FindIndex(normalizedHeaders, Has)
      HasExact(p) == ExactAt(p) # 0
      HasPartial(p) == PartialAt(p) # 0
      e == FindIndex(patterns, HasExact)
      q == FindIndex(patterns, HasPartial)
  IN  IF e # 0 THEN Some(hdrs[ExactAt(patterns[e])])
      ELSE IF q # 0 THEN Some(hdrs[PartialAt(patterns[q])])
      ELSE None

autoDetectColumns(hdrs) ==
  [zipCode |-> findBestMatch(hdrs, zipPatterns),
   street  |-> findBestMatch(hdrs, streetPatterns),
   city    |-> findBestMatch(hdrs, cityPatterns),
   country |-> findBestMatch(hdrs, countryPatterns)]

\* Elements of a sequence.
Range(seq) == {seq[k] : k \in 1..Len(seq)}

\* An error message: a fixed text, and the column names interpolated in it.
Message(text, cols) == [text |-> text, cols |-> cols]

\* validateColumnSelection(headers, zipCode, street, city, country).
IsSelected(col) == col # None /\ col[1] # <<>>

validateColumnSelection(hdrs, zipCode, street, city, country) ==
  LET e1 == IF Len(hdrs) = 0 THEN <<Message("No column headers found", <<>>)>> ELSE <<>>
      e2 == IF ~IsSelected(zipCode) /\ ~IsSelected(street) /\ ~IsSelected(city) /\ ~IsSelected(country)
            THEN <<Message("At least one address component (ZIP, street, city, or country) must be selected", <<>>)>>
            ELSE <<>>
      selectedColumns == SelectSeq(<<zipCode, street, city, country>>, IsSelected)
      NotAHeader(col) == col[1] \notin Range(hdrs)
      invalidColumns == SelectSeq(selectedColumns, NotAHeader)
      e3 == IF Len(invalidColumns) > 0
            THEN <<Message("Invalid columns selected: ", [k \in 1..Len(invalidColumns) |-> invalidColumns[k][1]])>>
            ELSE <<>>
      errs == e1 \o e2 \o e3
  IN  [isValid |-> Len(errs) = 0, errors |-> errs]

\* -------------------------------------------------------- addressProcessing
\* `columnMapping.x ? row[columnMapping.x] : undefined`
Lookup(row, col) == IF IsSelected(col) THEN Get(row, col[1]) ELSE None

\* The address string processAddressRow builds (street, zipCode, city; the
\* fourth parameter of buildAddressString is not passed).
RowAddress(row, mapping) ==
  buildAddressString(Lookup(row, mapping.street), Lookup(row, mapping.zipCode),
                     Lookup(row, mapping.city), None)

\* Mutant: the address is only tested for being a string.
NeedsGeocodeIfDefined(addressString) == Len(addressString) >= 0

\* `if (addressString.trim())`
NeedsGeocode(addressString) == Trim(addressString) # <<>>

\* Mutant: the cells of the row are trimmed before the row is kept.
processAddressRowTrimmingCells(row, mapping, outcome) ==
  LET processedAddress == [originalData |-> [column \in DOMAIN row |-> Trim(row[column])],
                           geocodeResult |-> None, error |-> None, coordinates |-> None]
  IN  IF NeedsGeocode(RowAddress(row, mapping))
      THEN IF outcome.state = "fulfilled"
           THEN IF outcome.value # None
                THEN [processedAddress EXCEPT
                        !.geocodeResult = outcome.value,
                        !.coordinates = Some(<<outcome.value[1].lat, outcome.value[1].lon>>)]
                ELSE [processedAddress EXCEPT !.error = Some("Address could not be found")]
           ELSE [processedAddress EXCEPT
                   !.error = Some(IF outcome.isError THEN outcome.message ELSE "Geocoding error")]
      ELSE [processedAddress EXCEPT !.error = Some("Empty address")]

\* Mutant: a rejection is reported with the generic text, whatever was raised.
processAddressRowGenericError(row, mapping, outcome) ==
  LET processedAddress == [originalData |-> row, geocodeResult |-> None,
                           error |-> None, coordinates |-> None]
  IN  IF NeedsGeocode(RowAddress(row, mapping))
      THEN IF outcome.state = "fulfilled"
           THEN IF outcome.value # None
                THEN [processedAddress EXCEPT
                        !.geocodeResult = outcome.value,
                        !.coordinates = Some(<<outcome.value[1].lat, outcome.value[1].lon>>)]
                ELSE [processedAddress EXCEPT !.error = Some("Address could not be found")]
           ELSE [processedAddress EXCEPT !.error = Some("Geocoding error")]
      ELSE [processedAddress EXCEPT !.error = Some("Empty address")]

\* Mutant: the error text for an address that was not found is attached
\* along with an empty pair of coordinates.
processAddressRowWithOrigin(row, mapping, outcome) ==
  LET processedAddress == [originalData |-> row, geocodeResult |-> None,
                           error |-> None, coordinates |-> None]
  IN  IF NeedsGeocode(RowAddress(row, mapping))
      THEN IF outcome.state = "fulfilled"
           THEN IF outcome.value # None
                THEN [processedAddress EXCEPT
                        !.geocodeResult = outcome.value,
                        !.coordinates = Some(<<outcome.value[1].lat, outcome.value[1].lon>>)]
                ELSE [processedAddress EXCEPT !.error = Some("Address could not be found"),
                                              !.coordinates = Some(<<0, 0>>)]
           ELSE [processedAddress EXCEPT
                   !.error = Some(IF outcome.isError THEN outcome.message ELSE "Geocoding error")]
      ELSE [processedAddress EXCEPT !.error = Some("Empty address")]

\* processAddressRow(row, columnMapping), given how the promise of
\* geocodeAddressWithRateLimit settled (only looked at when the address is
\* not blank).
processAddressRow(row, mapping, outcome) ==
  LET processedAddress == [originalData |-> row, geocodeResult |-> None,
                           error |-> None, coordinates |-> None]
  IN  IF NeedsGeocode(RowAddress(row, mapping))
      THEN IF outcome.state = "fulfilled"
           THEN IF outcome.value # None
                THEN [processedAddress EXCEPT
                        !.geocodeResult = outcome.value,
                        !.coordinates = Some(<<outcome.value[1].lat, outcome.value[1].lon>>)]
                ELSE [processedAddress EXCEPT !.error = Some("Address could not be found")]
           ELSE [processedAddress EXCEPT
                   !.error = Some(IF outcome.isError THEN outcome.message ELSE "Geocoding error")]
      ELSE [processedAddress EXCEPT !.error = Some("Empty address")]

\* Mutant: the rows that failed are not counted as processed.
calculateProgressOfFound(total, processed, successful, failed) ==
  [total |-> total, processed |-> successful, successful |-> successful, failed |-> failed]

calculateProgress(total, processed, successful, failed) ==
  [total |-> total, processed |-> processed, successful |-> successful, failed |-> failed]

\* Mutant: the error is not looked at.
isSuccessfulIgnoringError(processedAddress) == processedAddress.geocodeResult # None

\* `!!(processedAddress.geocodeResult && !processedAddress.error)`
isProcessedAddressSuccessful(processedAddress) ==
  processedAddress.geocodeResult # None /\ ~TruthyStr(processedAddress.error)

\* --------------------------------------------------------------- jsonExport
\* Number(value) for a cell: the number when the trimmed text is a run of
\* digits, NaN (None) otherwise.  The blank string is excluded by the caller.
Digits == {"0", "1", "2", "3", "4", "5", "6", "7", "8", "9"}

DigitValue(c) == CHOOSE n \in 0..9 : <<"0", "1", "2", "3", "4", "5", "6", "7", "8", "9">>[n + 1] = c

RECURSIVE DecimalValue(_)
DecimalValue(s) == IF s = <<>> THEN 0
                   ELSE 10 * DecimalValue(SubSeq(s, 1, Len(s) - 1)) + DigitValue(s[Len(s)])

ToNumber(value) ==
  LET t == Trim(value)
  IN  IF t # <<>> /\ \A k \in 1..Len(t) : t[k] \in Digits THEN Some(DecimalValue(t)) ELSE None

\* The metadata part of a feature's properties: for each requested column the
\* row has, the number it parses to, else the text itself.
MetadataProperties(addr, metadataColumns) ==
  LET present == {c \in Range(metadataColumns) : Get(addr.originalData, c) # None}
  IN  [c \in present |->
         LET value == addr.originalData[c]
         IN  IF ToNumber(value) # None /\ Trim(value) # <<>>
             THEN [number |-> ToNumber(value)[1]]
             ELSE [string |-> value]]

\* The column names of the rows.
hStreet == <<"S", "t", "r", "e", "e", "t">>
hPLZ == <<"P", "L", "Z">>
hOrt == <<"O", "r", "t">>
hFirma == <<"F", "i", "r", "m", "a">>
hName == <<"N", "a", "m", "e">>
hNick == <<"N", "i", "c", "k", " ", "N", "a", "m", "e">>
hLand == <<"L", "a", "n", "d">>

\* The keys of a row object in enumeration order.  A row parsed under a
\* header line holds its cells in the order of the header fields; a short
\* line gives a row that lacks the last fields.
ColumnOrder == <<hStreet, hPLZ, hOrt, hFirma, hName, hNick, hLand>>

\* Object.keys(row)
ObjectKeys(row) ==
  LET IsKey(c) == c \in DOMAIN row
  IN  SelectSeq(ColumnOrder, IsKey)

\* `.filter((addr) => addr.geocodeResult && !addr.error)`
HasResultAndNoError(addr) == addr.geocodeResult # None /\ ~TruthyStr(addr.error)

\* extractCityFromAddress(address): the postcode, then the first city-like
\* component that is not blank, joined by a blank.
extractCityFromAddress(address) ==
  LET postcode == Get(address, "postcode")
      cityComponents == <<Get(address, "city"), Get(address, "town"), Get(address, "village"),
                          Get(address, "municipality"), Get(address, "county"),
                          Get(address, "suburb")>>
      given == SelectSeq(cityComponents, DefinedAndNonBlank)
      cityParts == (IF DefinedAndNonBlank(postcode) THEN <<Trim(postcode[1])>> ELSE <<>>)
                   \o (IF given # <<>> THEN <<Trim(given[1][1])>> ELSE <<>>)
  IN  Join(cityParts, <<" ">>)

\* constructDisplayName(address): "road number, postcode city", or the first
\* other component when there is neither.
constructDisplayName(address) ==
  LET streetGiven == SelectSeq(<<Get(address, "road"), Get(address, "house_number")>>,
                               DefinedAndNonBlank)
      streetParts == [k \in 1..Len(streetGiven) |-> Trim(streetGiven[k][1])]
      cityString == extractCityFromAddress(address)
      addressParts == (IF Len(streetParts) > 0 THEN <<Join(streetParts, <<" ">>)>> ELSE <<>>)
                      \o (IF Trim(cityString) # <<>> THEN <<cityString>> ELSE <<>>)
      fallbackComponents == SelectSeq(<<Get(address, "village"), Get(address, "town"),
                                        Get(address, "suburb"), Get(address, "state"),
                                        Get(address, "country")>>, DefinedAndNonBlank)
      withFallback == IF Len(addressParts) = 0 /\ Len(fallbackComponents) > 0
                      THEN <<Trim(fallbackComponents[1][1])>>
                      ELSE addressParts
  IN  Join(withFallback, <<",", " ">>)

nameColumns ==
  << <<"n", "a", "m", "e">>,
     <<"f", "i", "r", "m", "a">>,
     <<"c", "o", "m", "p", "a", "n", "y">>,
     <<"u", "n", "t", "e", "r", "n", "e", "h", "m", "e", "n">>,
     <<"o", "r", "g", "a", "n", "i", "s", "a", "t", "i", "o", "n">>,
     <<"o", "r", "g", "a", "n", "i", "z", "a", "t", "i", "o", "n">>,
     <<"t", "i", "t", "l", "e">>,
     <<"b", "e", "z", "e", "i", "c", "h", "n", "u", "n", "g">> >>

\* The description of a feature, given its name.
DescriptionOf(originalData, metadataColumns, displayName, name) ==
  LET HasValue(column) == DefinedAndNonBlank(Get(originalData, column))
      shown == SelectSeq(metadataColumns, HasValue)
      descriptionParts ==
        [k \in 1..Len(shown) |->
           <<"<", "s", "t", "r", "o", "n", "g", ">">> \o shown[k]
             \o <<":", "<", "/", "s", "t", "r", "o", "n", "g", ">", " ">>
             \o Trim(originalData[shown[k]])]
      fromMetadata == Join(descriptionParts, <<"<", "b", "r", ">">>)
      withAddress ==
        IF displayName # <<>> /\ displayName # name
        THEN (IF fromMetadata # <<>> THEN fromMetadata \o <<"<", "b", "r", ">", "<", "b", "r", ">">> ELSE <<>>)
               \o <<"<", "s", "t", "r", "o", "n", "g", ">", "A", "d", "d", "r", "e", "s", "s", ":", "<", "/", "s", "t", "r", "o", "n", "g", ">", " ">>
               \o displayName
        ELSE fromMetadata
  IN  IF withAddress = <<>> THEN name ELSE withAddress

\* The first non-blank metadata value, the fallback name, the fallbacks in
\* their order.
NameFallback(originalData, metadataColumns, displayName, fromColumn) ==
  LET HasValue(column) == DefinedAndNonBlank(Get(originalData, column))
      m == FindIndex(metadataColumns, HasValue)
      afterDisplay == IF fromColumn = <<>> /\ displayName # <<>> THEN displayName ELSE fromColumn
      afterMetadata == IF afterDisplay = <<>> /\ m # 0
                       THEN Trim(originalData[metadataColumns[m]])
                       ELSE afterDisplay
  IN  IF afterMetadata = <<>> THEN <<"A", "d", "d", "r", "e", "s", "s">> ELSE afterMetadata

\* The loop over nameColumns: the trimmed value of the column found for
\* the first pattern that has a column with a value, "" when there is none.
\* (A set of one element names a value that is used more than once.)
NameFromColumns(originalData) ==
  LET keys == ObjectKeys(originalData)
      FoundCol(col) == LET Has(key) == Includes(ToLowerCase(key), col)
                       IN  FindIndex(keys, Has)
      ValueOf(col) == CHOOSE value \in {IF at # 0 THEN Trim(originalData[keys[at]]) ELSE <<>> :
                                          at \in {FoundCol(col)}} : TRUE
      Named(col) == ValueOf(col) # <<>>
  IN  CHOOSE value \in {IF n # 0 THEN ValueOf(nameColumns[n]) ELSE <<>> :
                          n \in {FindIndex(nameColumns, Named)}} : TRUE

\* Mutant: the first column found for a pattern gives the name, blank or
\* not.
generateUMapPropertiesFirstMatch(originalData, metadataColumns, displayName) ==
  LET keys == ObjectKeys(originalData)
      FoundCol(col) == LET Has(key) == Includes(ToLowerCase(key), col)
                       IN  FindIndex(keys, Has)
      Found(col) == FoundCol(col) # 0
      n == FindIndex(nameColumns, Found)
      fromColumn == IF n # 0 THEN Trim(originalData[keys[FoundCol(nameColumns[n])]]) ELSE <<>>
      name == IF n # 0 THEN fromColumn
              ELSE NameFallback(originalData, metadataColumns, displayName, fromColumn)
  IN  [name |-> name,
       description |-> DescriptionOf(originalData, metadataColumns, displayName, name)]

\* generateUMapProperties(originalData, metadataColumns, displayName)
generateUMapProperties(originalData, metadataColumns, displayName) ==
  CHOOSE uMapData \in
    {[name |-> name,
      description |-> DescriptionOf(originalData, metadataColumns, displayName, name)] :
       name \in {NameFallback(originalData, metadataColumns, displayName, fromColumn) :
                   fromColumn \in {NameFromColumns(originalData)}}} : TRUE

\* The keys under which name and description are put in the properties.
pName == <<"n", "a", "m", "e">>
pDescription == <<"d", "e", "s", "c", "r", "i", "p", "t", "i", "o", "n">>

\* The properties of a feature: the metadata, then name and description.
PropertiesOf(addr, metadataColumns) ==
  LET address == IF addr.geocodeResult[1].address # None THEN addr.geocodeResult[1].address[1]
                 ELSE <<>>
  IN  CHOOSE properties \in
        {(pName :> [string |-> uMapData.name])
           @@ (pDescription :> [string |-> uMapData.description])
           @@ MetadataProperties(addr, metadataColumns) :
           uMapData \in {generateUMapProperties(addr.originalData, metadataColumns, displayName) :
                           displayName \in {constructDisplayName(address)}}} : TRUE

\* Mutant: the pair is copied in the record's own order.
FeatureOfLatLon(addr, metadataColumns) ==
  [type |-> "Feature",
   geometry |-> [type |-> "Point",
                 coordinates |-> <<addr.geocodeResult[1].lat, addr.geocodeResult[1].lon>>],
   properties |-> PropertiesOf(addr, metadataColumns)]

\* One feature of the collection.
FeatureOf(addr, metadataColumns) ==
  [type |-> "Feature",
   geometry |-> [type |-> "Point",
                 coordinates |-> <<addr.geocodeResult[1].lon, addr.geocodeResult[1].lat>>],
   properties |-> PropertiesOf(addr, metadataColumns)]

convertToGeoJSON(addrs, metadataColumns) ==
  LET kept == SelectSeq(addrs, HasResultAndNoError)
  IN  [type |-> "FeatureCollection",
       features |-> [k \in 1..Len(kept) |-> FeatureOf(kept[k], metadataColumns)]]

\* The rate as toFixed(1) prints it, whole percents and tenths; "0%" for an
\* empty list.
SuccessRate(successful, total) ==
  IF total > 0
  THEN LET tenths == (2000 * successful + total) \div (2 * total)
       IN  [text |-> "n.n%", whole |-> tenths \div 10, tenth |-> tenths % 10]
  ELSE [text |-> "0%", whole |-> 0, tenth |-> 0]

\* Mutant: a record with a result is successful, whatever its error.
createProcessingSummaryByResult(addrs) ==
  LET HasResult(addr) == addr.geocodeResult # None
      total == Len(addrs)
      successful == Len(SelectSeq(addrs, HasResult))
  IN  [total |-> total, successful |-> successful, failed |-> total - successful,
       successRate |-> SuccessRate(successful, total)]

\* createProcessingSummary(processedAddresses)
createProcessingSummary(addrs) ==
  LET total == Len(addrs)
      successful == Len(SelectSeq(addrs, HasResultAndNoError))
  IN  [total |-> total, successful |-> successful, failed |-> total - successful,
       successRate |-> SuccessRate(successful, total)]

\* ------------------------------------------------------------------ inputs
FileHeaders == <<hStreet, hPLZ, hOrt, hName>>

\* The rows a file is made of: a full address with blanks to trim, a short
\* line whose address cells are empty or blank, a row with a ZIP code only,
\* a row with nothing but a name (one that needs quoting in a CSV file).
RowKinds ==
  << (hStreet :> <<"a">>) @@ (hPLZ :> <<" ", "1", " ">>) @@ (hOrt :> <<"c">>) @@ (hName :> <<"n">>),
     (hStreet :> <<>>) @@ (hPLZ :> <<" ">>),
     (hStreet :> <<" ">>) @@ (hPLZ :> <<"2">>) @@ (hOrt :> <<>>) @@ (hName :> <<"7">>),
     (hStreet :> <<" ", " ">>) @@ (hPLZ :> <<>>) @@ (hOrt :> <<" ">>) @@ (hName :> <<"\"", ",", "\n", " ">>) >>

\* The data of a file of n rows whose first row is of kind first.
FileData(n, first) == [k \in 1..n |-> RowKinds[((k + first - 2) % Len(RowKinds)) + 1]]

\* What parseCSVFile yields for the files a user may pick: rejected, without
\* data rows, without header fields, or n data rows under FileHeaders.
ParseResults ==
  { [name |-> "broken.csv", rejected |-> TRUE, data |-> <<>>, headers |-> <<>>],
    [name |-> "empty.csv", rejected |-> FALSE, data |-> <<>>, headers |-> FileHeaders],
    [name |-> "headless.csv", rejected |-> FALSE, data |-> FileData(1, 1), headers |-> <<>>],
    [name |-> "countries.csv", rejected |-> FALSE, data |-> <<(hLand :> <<"d">>)>>, headers |-> <<hLand>>] }
  \cup
  { [name |-> "addresses.csv", rejected |-> FALSE, data |-> FileData(n, first), headers |-> FileHeaders] :
      n \in 1..MaxRows, first \in 1..2 }

\* The mappings the column selector reports: it never reports a country.
SelectorMappings ==
  { [zipCode |-> Some(hPLZ), street |-> Some(hStreet), city |-> Some(hOrt), country |-> None,
     metadataColumns |-> <<hName>>],
    [zipCode |-> None, street |-> Some(hStreet), city |-> None, country |-> None,
     metadataColumns |-> <<>>],
    [zipCode |-> None, street |-> None, city |-> None, country |-> None,
     metadataColumns |-> <<>>],
    [zipCode |-> None, street |-> Some(hLand), city |-> None, country |-> None,
     metadataColumns |-> <<>>] }

\* The options of the selector's lists are the headers of the file.
Offered(mapping, hdrs) ==
  /\ \A col \in {mapping.zipCode, mapping.street, mapping.city} :
        IsSelected(col) => col[1] \in Range(hdrs)
  /\ Range(mapping.metadataColumns) \subseteq Range(hdrs)

\* ----------------------------------------------------- csvParser: CSV text
\* A CSV text is a sequence of characters.  The delimiter is the comma: the
\* cells and headers of the model hold no tab, "|" or ";", so the parser's
\* guess of the delimiter cannot be another one, and the line ending it
\* guesses for a text written with "\r\n" is "\r\n".
Quote == "\""
Delimiter == ","
Newline == <<"\r", "\n">>

\* unparse: a value is quoted when it holds a quote, the delimiter, "\r" or
\* "\n", or starts or ends with a space; quotes in it are doubled.
NeedsQuotes(str) ==
  \/ \E k \in 1..Len(str) : str[k] \in {Quote, Delimiter, "\r", "\n"}
  \/ Len(str) > 0 /\ (str[1] = " " \/ str[Len(str)] = " ")

RECURSIVE EscapeQuotes(_)
EscapeQuotes(str) ==
  IF str = <<>> THEN <<>>
  ELSE (IF Head(str) = Quote THEN <<Quote, Quote>> ELSE <<Head(str)>>) \o EscapeQuotes(Tail(str))

\* unparse: undefined and null give an empty cell.
Safe(value) ==
  IF value = None THEN <<>>
  ELSE IF NeedsQuotes(value[1]) THEN <<Quote>> \o EscapeQuotes(value[1]) \o <<Quote>>
  ELSE EscapeQuotes(value[1])

\* Papa.unparse({fields, data}) with rows keyed by field: the header line,
\* then one line per row with a cell per field; a row without keys gives an
\* empty line.
Unparse(fields, data) ==
  LET headerLine == Join([k \in 1..Len(fields) |-> Safe(Some(fields[k]))], <<Delimiter>>)
      Line(row) == IF DOMAIN row = {} THEN <<>>
                   ELSE Join([k \in 1..Len(fields) |-> Safe(Get(row, fields[k]))], <<Delimiter>>)
      lines == [k \in 1..Len(data) |-> Line(data[k])]
  IN  IF Len(fields) = 0 THEN Join(lines, Newline)
      ELSE IF Len(data) = 0 THEN headerLine
      ELSE headerLine \o Newline \o Join(lines, Newline)

\* The least position from `from` on where the text holds one of chars; 0
\* when there is none.
NextIndex(text, from, chars) ==
  LET found == {k \in from..Len(text) : text[k] \in chars}
  IN  IF found = {} THEN 0 ELSE CHOOSE k \in found : \A j \in found : k <= j

\* Whether the line ending starts at position k.
NewlineAt(text, k) == k + 1 <= Len(text) /\ text[k] = "\r" /\ text[k + 1] = "\n"

\* The least position from `from` on where the line ending starts, or 0.
NextNewline(text, from) ==
  LET found == {k \in from..Len(text) : NewlineAt(text, k)}
  IN  IF found = {} THEN 0 ELSE CHOOSE k \in found : \A j \in found : k <= j

\* The closing quote of the quoted field whose content starts at `from`: a
\* quote followed by the delimiter, the line ending or the end of the text;
\* a doubled quote is skipped, a quote followed by anything else is passed
\* over.  0 when the field is not closed.
RECURSIVE ClosingQuote(_, _)
ClosingQuote(text, from) ==
  LET k == NextIndex(text, from, {Quote})
  IN  IF k = 0 THEN 0
      ELSE IF k = Len(text) THEN k
      ELSE IF text[k + 1] = Quote THEN ClosingQuote(text, k + 2)
      ELSE IF text[k + 1] = Delimiter \/ NewlineAt(text, k + 1) THEN k
      ELSE ClosingQuote(text, k + 1)

RECURSIVE UnescapeQuotes(_)
UnescapeQuotes(str) ==
  IF str = <<>> THEN <<>>
  ELSE IF Len(str) >= 2 /\ str[1] = Quote /\ str[2] = Quote
       THEN <<Quote>> \o UnescapeQuotes(SubSeq(str, 3, Len(str)))
  ELSE <<Head(str)>> \o UnescapeQuotes(Tail(str))

\* The parser proper: the rows of the text as sequences of cells, reading
\* the field that starts at position `at` into the row under construction.
RECURSIVE ParseFields(_, _, _, _)
ParseFields(text, at, row, rows) ==
  IF at > Len(text)
  THEN \* the text is empty, or ended with a delimiter or a line ending
       IF at = 1 THEN rows ELSE Append(rows, Append(row, <<>>))
  ELSE IF text[at] = Quote
  THEN LET close == ClosingQuote(text, at + 1)
       IN  IF close = 0
           THEN Append(rows, Append(row, SubSeq(text, at + 1, Len(text))))
           ELSE LET field == UnescapeQuotes(SubSeq(text, at + 1, close - 1))
                IN  IF close = Len(text)
                    THEN Append(rows, Append(row, field))
                    ELSE IF text[close + 1] = Delimiter
                    THEN ParseFields(text, close + 2, Append(row, field), rows)
                    ELSE ParseFields(text, close + 3, <<>>, Append(rows, Append(row, field)))
  ELSE LET d == NextIndex(text, at, {Delimiter})
           n == NextNewline(text, at)
       IN  IF d # 0 /\ (n = 0 \/ d < n)
           THEN ParseFields(text, d + 1, Append(row, SubSeq(text, at, d - 1)), rows)
           ELSE IF n # 0
           THEN ParseFields(text, n + 2, <<>>, Append(rows, Append(row, SubSeq(text, at, n - 1))))
           ELSE Append(rows, Append(row, SubSeq(text, at, Len(text))))

\* `skipEmptyLines: true`: a line that is one empty cell.
IsEmptyLine(cells) == Len(cells) = 1 /\ cells[1] = <<>>
NotEmptyLine(cells) == ~IsEmptyLine(cells)

\* `header: true`: the first line left names the fields; every other line
\* becomes a row keyed by them, a short line a row without the last fields.
\* Cells beyond the fields are collected apart from the named ones.
Parse(text) ==
  LET lines == SelectSeq(ParseFields(text, 1, <<>>, <<>>), NotEmptyLine)
      fields == IF Len(lines) = 0 THEN <<>> ELSE lines[1]
      Min(a, b) == IF a <= b THEN a ELSE b
      RowOf(cells) ==
        LET n == Min(Len(cells), Len(fields))
            At(c) == CHOOSE j \in 1..n : fields[j] = c /\ \A m \in (j + 1)..n : fields[m] # c
        IN  [c \in {fields[j] : j \in 1..n} |-> cells[At(c)]]
  IN  [headers |-> fields,
       data |-> [k \in 1..(Max(Len(lines), 1) - 1) |-> RowOf(lines[k + 1])]]

\* ---------------------------------------------- csvParser: failure export
\* Mutant: the columns are those of the first row.
ColumnsOfFirstRow(failedAddresses, n) ==
  IF n = 0 THEN <<>> ELSE ObjectKeys(failedAddresses[1].originalData)

\* Mutant: the columns are put in alphabetical order of their first letter.
ColumnsSorted(failedAddresses, n) ==
  LET keys == UNION {DOMAIN failedAddresses[k].originalData : k \in 1..n}
      IsKey(c) == c \in keys
  IN  SelectSeq(<<hLand, hName, hOrt, hPLZ, hStreet>>, IsKey)

\* allColumns after the first n rows of the forEach: the keys not seen yet
\* are appended in the order the row has them.
RECURSIVE CollectColumns(_, _)
CollectColumns(failedAddresses, n) ==
  IF n = 0 THEN <<>>
  ELSE LET allColumns == CollectColumns(failedAddresses, n - 1)
           NotSeen(key) == key \notin Range(allColumns)
       IN  allColumns \o SelectSeq(ObjectKeys(failedAddresses[n].originalData), NotSeen)

\* Mutant: an empty list is written as a file like any other.
ReturnsEarlyNever(failedAddresses) == Len(failedAddresses) < 0

\* `if (failedAddresses.length === 0) return;`
ReturnsEarly(failedAddresses) == Len(failedAddresses) = 0

\* Mutant: the rows are written without their last one.
ExportedRowsButLast(failedAddresses) ==
  [k \in 1..(Len(failedAddresses) - 1) |-> failedAddresses[k].originalData]

\* `failedAddresses.map((addr) => ({ ...addr.originalData }))`
ExportedRows(failedAddresses) ==
  [k \in 1..Len(failedAddresses) |-> failedAddresses[k].originalData]

\* downloadFailedAddressesCSV(failedAddresses, originalFilename): the files
\* handed to the browser, none for an empty list, else one with the CSV text
\* (a blob, an object URL and a link are made for it and the link clicked).
downloadFailedAddressesCSV(failedAddresses) ==
  IF ReturnsEarly(failedAddresses) THEN <<>>
  ELSE LET hdrs == CollectColumns(failedAddresses, Len(failedAddresses))
           csvString == Unparse(hdrs, ExportedRows(failedAddresses))
       IN  <<[type |-> "text/csv;charset=utf-8;", content |-> csvString,
              blobs |-> 1, links |-> 1]>>

\* Results: `processedAddresses.filter((addr) => !addr.geocodeResult || addr.error)`
IsFailedAddress(addr) == addr.geocodeResult = None \/ TruthyStr(addr.error)
FailedAddressesOf(addrs) == SelectSeq(addrs, IsFailedAddress)

\* ------------------------------------------------------------------- state
VARIABLES
  \* AppState
  currentStep, csvData, headers, selectedFile, columnMapping,
  processedAddresses, progress, isProcessing, geoJsonData, errors,
  \* the suspended call of handleStartProcessing: where it is, its loop
  \* index and its locals
  pc, i, results, successfulCount, failedCount,
  \* outside the application: rows whose request is outstanding, the value
  \* geocodeAddress resolved to while the delay runs, the delay's timer
  \* (remaining ms), ms since the last request settled (capped)
  inflight, held, timer, sinceSettle,
  \* observation: rows a request was issued for, progress snapshots the loop
  \* published, whether cancel was clicked in this run
  requested, emitted, cancelled,
  \* the browser: the content of the files handed to the user as downloads
  downloaded,
  \* the `state` the running handleStartProcessing closed over (the rows and
  \* the mapping of the render it was called in), and the files whose
  \* parsing handleFileSelected is waiting for
  closure, parsing,
  \* the unit tests' call of a function on its own: the function, its
  \* argument, where the call is, the response given and the value returned
  unit

appVars == <<currentStep, csvData, headers, selectedFile, columnMapping,
             processedAddresses, progress, isProcessing, geoJsonData, errors>>
runVars == <<pc, i, results, successfulCount, failedCount>>
envVars == <<inflight, held, timer, sinceSettle>>
obsVars == <<requested, emitted, cancelled>>
lateVars == <<closure, parsing>>
vars == <<appVars, runVars, envVars, obsVars, downloaded, unit, lateVars>>

NoMapping == [zipCode |-> None, street |-> None, city |-> None, country |-> None,
              metadataColumns |-> <<>>]
ZeroProgress == [total |-> 0, processed |-> 0, successful |-> 0, failed |-> 0]

\* initialState
InitialAppState ==
  /\ currentStep = "upload"
  /\ csvData = <<>>
  /\ headers = <<>>
  /\ selectedFile = None
  /\ columnMapping = NoMapping
  /\ processedAddresses = <<>>
  /\ progress = ZeroProgress
  /\ isProcessing = FALSE
  /\ geoJsonData = None
  /\ errors = <<>>

NoRun ==
  /\ pc = "idle" /\ i = 0 /\ results = <<>> /\ successfulCount = 0 /\ failedCount = 0
  /\ inflight = {} /\ held = None /\ timer = None /\ sinceSettle = 0
  /\ requested = <<>> /\ emitted = <<>> /\ cancelled = FALSE

\* No function is under test.
\* No response (no request was made).
NoResp == [kind |-> "none", data |-> <<>>]

NoCall == [fn |-> "none", phase |-> "ready", arg |-> <<>>, resp |-> NoResp, ret |-> <<>>]

\* No handleStartProcessing is running.
NoClosure == [csvData |-> <<>>, columnMapping |-> NoMapping]

Init ==
  /\ InitialAppState /\ NoRun /\ downloaded = <<>> /\ unit = NoCall
  /\ closure = NoClosure /\ parsing = {}

\* ----------------------------------------------------------------- actions
\* handleFileSelected(file), with what parseCSVFile yields for the file.
FileSelected(parsed) ==
  /\ currentStep = "upload"
  /\ selectedFile' = Some(parsed.name)
  /\ IF parsed.rejected
     THEN /\ errors' = <<Message("Error loading CSV file: ", <<>>)>>
          /\ UNCHANGED <<currentStep, csvData, headers, columnMapping>>
     ELSE IF Len(parsed.data) = 0
     THEN /\ errors' = <<Message("The CSV file contains no data.", <<>>)>>
          /\ UNCHANGED <<currentStep, csvData, headers, columnMapping>>
     ELSE IF Len(parsed.headers) = 0
     THEN /\ errors' = <<Message("The CSV file contains no column headers.", <<>>)>>
          /\ UNCHANGED <<currentStep, csvData, headers, columnMapping>>
     ELSE /\ errors' = <<>>
          /\ csvData' = parsed.data
          /\ headers' = parsed.headers
          /\ columnMapping' = [autoDetectColumns(parsed.headers) EXCEPT !.country = @] @@
                              [metadataColumns |-> <<>>]
          /\ currentStep' = "preview"
  /\ UNCHANGED <<processedAddresses, progress, isProcessing, geoJsonData>>
  /\ UNCHANGED <<runVars, envVars, obsVars>>
  /\ UNCHANGED <<downloaded, unit>>
  /\ UNCHANGED lateVars

\* handleMappingChange(mapping).
handleMappingChange(mapping) ==
  /\ pc = "idle"
  /\ columnMapping' = mapping
  /\ UNCHANGED <<currentStep, csvData, headers, selectedFile, processedAddresses,
                 progress, isProcessing, geoJsonData, errors>>
  /\ UNCHANGED <<runVars, envVars, obsVars>>
  /\ UNCHANGED <<downloaded, unit>>
  /\ UNCHANGED lateVars

\* The column selector of the preview step reports a mapping.
MappingChange(mapping) ==
  /\ currentStep = "preview"
  /\ Offered(mapping, headers)
  /\ handleMappingChange(mapping)

\* The Start Geocoding button is disabled while no ZIP, street or city
\* column is selected.
StartEnabled ==
  IsSelected(columnMapping.zipCode) \/ IsSelected(columnMapping.street) \/ IsSelected(columnMapping.city)

\* Mutant: the outcome of the validation is not looked at.
ValidationIgnored(validation) == validation.isValid /\ ~validation.isValid

\* `if (!validation.isValid)`
ValidationFailed(validation) == ~validation.isValid

\* handleStartProcessing up to the loop: validation (the country is not
\* passed), then either the messages are appended and the handler returns,
\* or the processing step is entered with a zeroed progress and the loop
\* starts at row 0.  The error list is kept short: once it holds MaxErrors
\* messages the handler is not called again to add more.
handleStartProcessing ==
  /\ pc = "idle"
  /\ LET validation == validateColumnSelection(headers, columnMapping.zipCode,
                                               columnMapping.street, columnMapping.city, None)
     IN  IF ValidationFailed(validation)
         THEN /\ Len(errors) < MaxErrors
              /\ errors' = errors \o validation.errors
              /\ UNCHANGED <<currentStep, isProcessing, progress>>
              /\ UNCHANGED <<runVars, envVars, obsVars, closure>>
         ELSE /\ currentStep' = "processing"
              /\ closure' = [csvData |-> csvData, columnMapping |-> columnMapping]
              /\ errors' = <<>>
              /\ isProcessing' = TRUE
              /\ progress' = [total |-> Len(csvData), processed |-> 0, successful |-> 0, failed |-> 0]
              /\ pc' = "row" /\ i' = 0 /\ results' = <<>>
              /\ successfulCount' = 0 /\ failedCount' = 0
              /\ requested' = <<>> /\ emitted' = <<>> /\ cancelled' = FALSE
              /\ UNCHANGED envVars
  /\ UNCHANGED <<csvData, headers, selectedFile, columnMapping, processedAddresses, geoJsonData>>
  /\ UNCHANGED <<downloaded, unit, parsing>>

\* A click on the Start Geocoding button of the preview step.
StartProcessing ==
  /\ currentStep = "preview"
  /\ StartEnabled
  /\ handleStartProcessing

\* Mutant: the snapshot for the last row is not forced.
PublishesAfterBatchOnly(index, length) == (index + 1) % ProgressBatch = 0

\* Mutant: a snapshot is published after every row.
PublishesAfterEveryRow(index, length) == index <= length - 1

\* `(i + 1) % 10 === 0 || i === state.csvData.length - 1`
PublishesAfter(index, length) == (index + 1) % ProgressBatch = 0 \/ index = length - 1

\* The rest of one loop iteration once processAddressRow has returned
\* processedAddress: push, count, publish a snapshot when due, next index.
Collect(processedAddress) ==
  \E pushed \in {processedAddress} :
  \E ok \in {isProcessedAddressSuccessful(pushed)} :
    LET s == IF ok THEN successfulCount + 1 ELSE successfulCount
        f == IF ok THEN failedCount ELSE failedCount + 1
    IN  /\ results' = Append(results, pushed)
        /\ successfulCount' = s
        /\ failedCount' = f
        /\ IF PublishesAfter(i, Len(closure.csvData))
           THEN /\ progress' = calculateProgress(Len(closure.csvData), i + 1, s, f)
                /\ processedAddresses' = Append(results, pushed)
                /\ emitted' = Append(emitted, calculateProgress(Len(closure.csvData), i + 1, s, f))
           ELSE UNCHANGED <<progress, processedAddresses, emitted>>
        /\ i' = i + 1
        /\ pc' = "row"
        /\ UNCHANGED <<currentStep, csvData, headers, selectedFile, columnMapping,
                       isProcessing, geoJsonData, errors>>

\* Mutant: the loop stops one row short.
LoopStopsOneShort == i < Len(closure.csvData) - 1

\* `for (...; i < state.csvData.length; ...)`: the loop goes on.
LoopContinues == i < Len(closure.csvData)

\* One loop iteration up to its first suspension: the address is built; a
\* blank one gives the row its error at once, any other is handed to
\* geocodeAddressWithRateLimit, which issues the request unless geocodeAddress
\* finds the address blank.
ProcessRow ==
  /\ pc = "row"
  /\ LoopContinues
  /\ LET row == closure.csvData[i + 1]
         addressString == RowAddress(row, closure.columnMapping)
     IN  IF ~NeedsGeocode(addressString)
         THEN /\ Collect(processAddressRow(row, closure.columnMapping, Fulfilled(None)))
              /\ UNCHANGED <<envVars, requested, cancelled>>
         ELSE IF GeocodeSkips(addressString)
         THEN /\ held' = Some(Fulfilled(None))
              /\ timer' = Some(RateLimitWait)
              /\ pc' = "delay"
              /\ UNCHANGED <<appVars, i, results, successfulCount, failedCount,
                             inflight, sinceSettle, obsVars>>
         ELSE /\ inflight' = inflight \cup {i}
              /\ requested' = Append(requested, i)
              /\ pc' = "fetch"
              /\ UNCHANGED <<appVars, i, results, successfulCount, failedCount,
                             held, timer, sinceSettle, emitted, cancelled>>
  /\ UNCHANGED <<downloaded, unit>>
  /\ UNCHANGED lateVars

\* The outstanding request settles with resp; geocodeAddress settles, and
\* geocodeAddressWithRateLimit starts its delay.
FetchSettles(resp) ==
  /\ pc = "fetch"
  /\ i \in inflight
  /\ inflight' = inflight \ {i}
  /\ sinceSettle' = 0
  /\ LET outcome == GeocodeSettle(resp)
     IN  IF outcome.state = "rejected"
         THEN /\ Collect(processAddressRow(closure.csvData[i + 1], closure.columnMapping, outcome))
              /\ UNCHANGED <<held, timer, requested, cancelled>>
         ELSE /\ held' = Some(outcome)
              /\ timer' = Some(RateLimitWait)
              /\ pc' = "delay"
              /\ UNCHANGED <<appVars, i, results, successfulCount, failedCount, obsVars>>
  /\ UNCHANGED <<downloaded, unit>>
  /\ UNCHANGED lateVars

\* Time passes while the delay's timer is pending.
Tick ==
  /\ timer # None
  /\ timer[1] > 0
  /\ timer' = Some(Max(0, timer[1] - TickMs))
  /\ sinceSettle' = IF sinceSettle + TickMs > RATE_LIMIT_DELAY THEN RATE_LIMIT_DELAY
                    ELSE sinceSettle + TickMs
  /\ UNCHANGED <<appVars, runVars, inflight, held, obsVars, downloaded, unit>>
  /\ UNCHANGED lateVars

\* Mutant: the timer never fires.
TimerNeverDue == timer # None /\ timer[1] < 0

\* setTimeout fires once its time is over.
TimerDue == timer # None /\ timer[1] = 0

\* The delay is over: geocodeAddressWithRateLimit returns the held result,
\* processAddressRow returns, the iteration completes.
DelayElapsed ==
  /\ pc = "delay"
  /\ TimerDue
  /\ timer' = None
  /\ held' = None
  /\ Collect(processAddressRow(closure.csvData[i + 1], closure.columnMapping, held[1]))
  /\ UNCHANGED <<inflight, sinceSettle, requested, cancelled>>
  /\ UNCHANGED <<downloaded, unit>>
  /\ UNCHANGED lateVars

\* After the loop: the collection is built and the results step entered.
Finish ==
  /\ pc = "row"
  /\ ~LoopContinues
  /\ geoJsonData' = Some(convertToGeoJSON(results, closure.columnMapping.metadataColumns))
  /\ isProcessing' = FALSE
  /\ processedAddresses' = results
  /\ currentStep' = "results"
  /\ pc' = "done"
  /\ UNCHANGED <<csvData, headers, selectedFile, columnMapping, progress, errors>>
  /\ UNCHANGED <<i, results, successfulCount, failedCount, envVars, obsVars>>
  /\ UNCHANGED <<downloaded, unit>>
  /\ UNCHANGED lateVars

\* handleCancelProcessing: the Cancel button is shown on the processing step
\* while isProcessing; a click is handled only while the loop is suspended.
CancelProcessing ==
  /\ currentStep = "processing"
  /\ isProcessing
  /\ pc \in {"fetch", "delay"}
  /\ isProcessing' = FALSE
  /\ cancelled' = TRUE
  /\ UNCHANGED <<currentStep, csvData, headers, selectedFile, columnMapping,
                 processedAddresses, progress, geoJsonData, errors>>
  /\ UNCHANGED <<runVars, envVars, requested, emitted>>
  /\ UNCHANGED <<downloaded, unit>>
  /\ UNCHANGED lateVars

\* usePageProtection: once the effects of a render have run, the
\* beforeunload listener is installed exactly while isProcessing.
BeforeUnloadInstalled == isProcessing

\* handleStartOver, offered on the results step.
StartOver ==
  /\ currentStep = "results"
  /\ currentStep' = "upload"
  /\ csvData' = <<>>
  /\ headers' = <<>>
  /\ selectedFile' = None
  /\ columnMapping' = NoMapping
  /\ processedAddresses' = <<>>
  /\ progress' = ZeroProgress
  /\ isProcessing' = FALSE
  /\ geoJsonData' = None
  /\ errors' = <<>>
  /\ pc' = "idle" /\ i' = 0 /\ results' = <<>> /\ successfulCount' = 0 /\ failedCount' = 0
  /\ inflight' = {} /\ held' = None /\ timer' = None /\ sinceSettle' = 0
  /\ requested' = <<>> /\ emitted' = <<>> /\ cancelled' = FALSE
  /\ downloaded' = <<>>
  /\ closure' = NoClosure
  /\ UNCHANGED <<unit, parsing>>

\* handleDownloadFailedCSV of the results step; its button is shown while
\* there are failed addresses.
DownloadFailedCSV ==
  /\ currentStep = "results"
  /\ Len(FailedAddressesOf(processedAddresses)) > 0
  /\ downloaded' = downloadFailedAddressesCSV(FailedAddressesOf(processedAddresses))
  /\ UNCHANGED <<appVars, runVars, envVars, obsVars, unit>>
  /\ UNCHANGED lateVars

Next ==
  \/ \E parsed \in ParseResults : FileSelected(parsed)
  \/ \E mapping \in SelectorMappings : MappingChange(mapping)
  \/ StartProcessing
  \/ ProcessRow
  \/ \E resp \in Responses : FetchSettles(resp)
  \/ Tick
  \/ DelayElapsed
  \/ Finish
  \/ CancelProcessing
  \/ DownloadFailedCSV
  \/ StartOver

Spec == Init /\ [][Next]_vars

\* The event loop runs a continuation that is ready, time passes and a
\* timer that is due fires; every request settles at some time.
Fairness ==
  /\ WF_vars(ProcessRow)
  /\ WF_vars(\E resp \in Responses : FetchSettles(resp))
  /\ WF_vars(Tick)
  /\ WF_vars(DelayElapsed)
  /\ WF_vars(Finish)

\* The application with files of a few rows.
MaxFairRows == 3
FairFiles == {parsed \in ParseResults : Len(parsed.data) <= MaxFairRows}

FairNext ==
  \/ \E parsed \in FairFiles : FileSelected(parsed)
  \/ \E mapping \in SelectorMappings : MappingChange(mapping)
  \/ StartProcessing
  \/ ProcessRow
  \/ \E resp \in Responses : FetchSettles(resp)
  \/ Tick
  \/ DelayElapsed
  \/ Finish
  \/ CancelProcessing
  \/ DownloadFailedCSV
  \/ StartOver

FairSpec == Init /\ [][FairNext]_vars /\ Fairness

\* ------------------------------------------- files parsed while the user acts
\* handleFileSelected awaits parseCSVFile, and the file picker stays usable
\* meanwhile (App does not pass isLoading): a file can be picked while
\* another is being parsed, and a parse can complete on any step.
MaxPending == 2

\* The files picked here: one that cannot be parsed, two of addresses.
OverlapFiles ==
  { parsed \in ParseResults :
      \/ parsed.rejected
      \/ parsed.headers = FileHeaders /\ parsed.data \in {FileData(2, 1), FileData(3, 2)} }

\* handleFileSelected(file) up to its await.
SelectFile(parsed) ==
  /\ currentStep = "upload"
  /\ Cardinality(parsing) < MaxPending
  /\ parsed \notin parsing
  /\ selectedFile' = Some(parsed.name)
  /\ errors' = <<>>
  /\ parsing' = parsing \cup {parsed}
  /\ UNCHANGED <<currentStep, csvData, headers, columnMapping,
                 processedAddresses, progress, isProcessing, geoJsonData>>
  /\ UNCHANGED <<runVars, envVars, obsVars, downloaded, unit, closure>>

\* handleFileSelected(file) from its await on: parseCSVFile has settled.
ParseCompletes(parsed) ==
  /\ parsed \in parsing
  /\ parsing' = parsing \ {parsed}
  /\ IF parsed.rejected
     THEN /\ errors' = Append(errors, Message("Error loading CSV file: ", <<>>))
          /\ UNCHANGED <<currentStep, csvData, headers, columnMapping>>
     ELSE IF Len(parsed.data) = 0
     THEN /\ errors' = Append(errors, Message("The CSV file contains no data.", <<>>))
          /\ UNCHANGED <<currentStep, csvData, headers, columnMapping>>
     ELSE IF Len(parsed.headers) = 0
     THEN /\ errors' = Append(errors, Message("The CSV file contains no column headers.", <<>>))
          /\ UNCHANGED <<currentStep, csvData, headers, columnMapping>>
     ELSE /\ csvData' = parsed.data
          /\ headers' = parsed.headers
          /\ columnMapping' = [autoDetectColumns(parsed.headers) EXCEPT !.country = @] @@
                              [metadataColumns |-> <<>>]
          /\ currentStep' = "preview"
          /\ UNCHANGED errors
  /\ UNCHANGED <<selectedFile, processedAddresses, progress, isProcessing, geoJsonData>>
  /\ UNCHANGED <<runVars, envVars, obsVars, downloaded, unit, closure>>

\* The Start Geocoding button is rendered and enabled: a click calls
\* handleStartProcessing, whether or not an earlier call is still in its
\* loop.  (The actions follow one call at a time.)
StartOffered == currentStep = "preview" /\ StartEnabled

OverlapNext ==
  \/ \E parsed \in OverlapFiles : SelectFile(parsed)
  \/ \E parsed \in OverlapFiles : ParseCompletes(parsed)
  \/ \E mapping \in SelectorMappings : MappingChange(mapping)
  \/ StartProcessing
  \/ ProcessRow
  \/ \E resp \in Responses : FetchSettles(resp)
  \/ Tick
  \/ DelayElapsed
  \/ Finish
  \/ CancelProcessing
  \/ DownloadFailedCSV
  \/ StartOver

OverlapSpec == Init /\ [][OverlapNext]_vars

\* ------------------------------------------------- the handlers on their own
\* The handlers of App called as functions, whatever the components render:
\* handleMappingChange with any mapping object (country only, a column the
\* file does not have), handleStartProcessing although its button is
\* disabled or not shown.
HandlerMappings ==
  SelectorMappings \cup
  { [zipCode |-> None, street |-> None, city |-> None, country |-> Some(hLand),
     metadataColumns |-> <<>>] }

HandlerStart == handleStartProcessing

HandlerNext ==
  \/ Next
  \/ \E mapping \in HandlerMappings : handleMappingChange(mapping)
  \/ HandlerStart

HandlerSpec == Init /\ [][HandlerNext]_vars

\* ------------------------------------------------------- functions on their own
\* The unit tests call one function at a time: the geocoding client with a
\* mocked fetch, processAddressRow with a mocked client, the pure functions
\* with hand-built records.
TestAddresses == { <<>>, <<" ">>, <<" ", " ">>, <<"a">>, <<" ", "B", ",", " ", "c", " ">> }

Result1 == [lat |-> 40, lon |-> -75, display_name |-> Some("Springfield"),
            address |-> Some(Address1)]
Result2 == [lat |-> 52, lon |-> 13, display_name |-> None, address |-> None]
Result3 == [lat |-> 52, lon |-> 13, display_name |-> Some("Springfield"), address |-> None]

\* How a mocked geocodeAddressWithRateLimit settles.
MockedOutcomes ==
  { Fulfilled(Some(Result1)), Fulfilled(Some(Result2)), Fulfilled(None),
    Rejected(TRUE, "Network error"), Rejected(TRUE, ""), Rejected(FALSE, "") }

\* Hand-built records: found, not found, neither field, both fields, a
\* result with an empty error text.
TestRecord(row, result, error) ==
  [originalData |-> row, geocodeResult |-> result, error |-> error,
   coordinates |-> IF result = None THEN None ELSE Some(<<result[1].lat, result[1].lon>>)]

TestRecords ==
  { TestRecord(RowKinds[1], Some(Result1), None),
    TestRecord(RowKinds[2], Some(Result2), None),
    TestRecord(RowKinds[3], None, Some("Failed")),
    TestRecord(RowKinds[4], None, None),
    TestRecord(RowKinds[1], Some(Result2), Some("Some error")),
    TestRecord(RowKinds[2], Some(Result1), Some("")) }

TestLists == UNION { [1..n -> TestRecords] : n \in 0..MaxList }

\* Found records for the title of a feature: two name-like columns, the
\* first of them blank or not, a blank name beside a nickname, no name-like
\* column with a value; with address components and without.
TitleRows ==
  { (hFirma :> <<"f">>) @@ (hName :> <<" ", "n">>),
    (hFirma :> <<"f", " ">>) @@ (hName :> <<" ">>),
    (hName :> <<>>) @@ (hNick :> <<"b">>),
    (hStreet :> <<"s", " ">>) @@ (hName :> <<" ">>),
    (hStreet :> <<" ">>) @@ (hPLZ :> <<"1">>) }

TitleLists == { <<TestRecord(row, Some(result), None)>> : row \in TitleRows, result \in {Result1, Result2, Result3} }

\* The metadata columns selected in the tests.
TestMetadata == { <<>>, <<hName>>, <<hName, hStreet, hPLZ>> }

\* Failed records for the export: rows of a file, and hand-built rows with
\* different columns, the later columns in the earlier row.
FailedRecords ==
  { TestRecord(RowKinds[2], None, Some("Empty address")),
    TestRecord(RowKinds[4], None, Some("Address could not be found")),
    TestRecord((hOrt :> <<"c", ",", " ", "d">>) @@ (hName :> <<"n">>), None, Some("Error 1")),
    TestRecord((hStreet :> <<"s">>) @@ (hPLZ :> <<"1">>) @@ (hLand :> <<>>), None, Some("Error 2")) }

FailedLists == UNION { [1..n -> FailedRecords] : n \in 0..MaxList }

\* Components for buildAddressString: undefined, empty, blank, plain, with
\* blanks around and inside, with a comma.
TestParts ==
  { None, Some(<<>>), Some(<<" ", " ">>), Some(<<"a">>), Some(<<" ", "b", " ", "c", " ">>),
    Some(<<"d", ",">>) }

\* Header lists for autoDetectColumns: those of its tests (blanks around the
\* names, mixed case, exact and partial matches, no match), and every list
\* of up to MaxList headers of a pool.
HeaderPool ==
  { <<" ", "P", "L", "Z", " ">>,
    <<"P", "L", "Z", " ", "C", "o", "d", "e">>,
    <<"S", "t", "r", "e", "e", "t">>,
    <<"S", "T", "A", "D", "T">>,
    <<"N", "a", "m", "e">>,
    <<"C", "o", "u", "n", "t", "r", "y">>,
    <<" ", "O", "r", "t">>,
    <<"z", "i", "p">> }

TestHeaderLists ==
  { <<<<" ", "P", "L", "Z", " ">>, <<" ", "S", "t", "r", "a", "ß", "e", " ">>, <<" ", "O", "r", "t", " ">>, <<"N", "a", "m", "e">>>>,
    <<<<"n", "a", "m", "e">>, <<"P", "O", "S", "T", "L", "E", "I", "T", "Z", "A", "H", "L">>, <<"s", "t", "r", "a", "ß", "e">>, <<"S", "T", "A", "D", "T">>, <<"e", "m", "a", "i", "l">>>>,
    <<<<"N", "a", "m", "e">>, <<"P", "L", "Z", " ", "C", "o", "d", "e">>, <<"P", "L", "Z">>, <<"S", "t", "r", "e", "e", "t", " ", "N", "a", "m", "e">>, <<"S", "t", "r", "e", "e", "t">>, <<"C", "i", "t", "y", " ", "A", "r", "e", "a">>, <<"C", "i", "t", "y">>>>,
    <<<<"N", "a", "m", "e">>, <<"E", "m", "a", "i", "l">>, <<"P", "h", "o", "n", "e">>>>,
    <<<<"C", "u", "s", "t", "o", "m", "e", "r", " ", "N", "a", "m", "e">>, <<"Z", "I", "P", " ", "C", "o", "d", "e", " ", "A", "r", "e", "a">>, <<"S", "t", "r", "e", "e", "t", " ", "A", "d", "d", "r", "e", "s", "s">>, <<"C", "i", "t", "y", " ", "N", "a", "m", "e">>, <<"E", "m", "a", "i", "l">>>>,
    <<<<"Z", "I", "P", " ", "C", "o", "d", "e", " ", "A", "r", "e", "a">>, <<"P", "L", "Z", " ", "C", "o", "d", "e">>>>,
    <<<<"P", "L", "Z", " ", "C", "o", "d", "e">>, <<"M", "y", " ", "P", "L", "Z">>, <<"P", "o", "s", "t", "a", "l", " ", "C", "o", "d", "e">>>> }
  \cup UNION { [1..n -> HeaderPool] : n \in 0..MaxList }

Returned(fn, arg, resp, ret) == [fn |-> fn, phase |-> "returned", arg |-> arg, resp |-> resp, ret |-> ret]

\* geocodeAddress(address) up to its first suspension.
CallGeocodeAddress(address) ==
  /\ unit = NoCall
  /\ IF GeocodeSkips(address)
     THEN /\ unit' = Returned("geocodeAddress", address, NoResp, Fulfilled(None))
          /\ UNCHANGED <<inflight, requested>>
     ELSE /\ unit' = [fn |-> "geocodeAddress", phase |-> "fetch", arg |-> address,
                      resp |-> NoResp, ret |-> <<>>]
          /\ inflight' = inflight \cup {0}
          /\ requested' = Append(requested, 0)
  /\ UNCHANGED <<appVars, runVars, held, timer, sinceSettle, emitted, cancelled, downloaded>>
  /\ UNCHANGED lateVars

\* geocodeAddressWithRateLimit(address) up to its first suspension: it
\* awaits geocodeAddress, and when that returned at once, the delay.
CallGeocodeAddressWithRateLimit(address) ==
  /\ unit = NoCall
  /\ IF GeocodeSkips(address)
     THEN /\ unit' = [fn |-> "geocodeAddressWithRateLimit", phase |-> "delay", arg |-> address,
                      resp |-> NoResp, ret |-> <<>>]
          /\ held' = Some(Fulfilled(None))
          /\ timer' = Some(RateLimitWait)
          /\ UNCHANGED <<inflight, requested>>
     ELSE /\ unit' = [fn |-> "geocodeAddressWithRateLimit", phase |-> "fetch", arg |-> address,
                      resp |-> NoResp, ret |-> <<>>]
          /\ inflight' = inflight \cup {0}
          /\ requested' = Append(requested, 0)
          /\ UNCHANGED <<held, timer>>
  /\ UNCHANGED <<appVars, runVars, sinceSettle, emitted, cancelled, downloaded>>
  /\ UNCHANGED lateVars

\* The mocked fetch settles with resp.
UnitFetchSettles(resp) ==
  /\ unit.phase = "fetch"
  /\ inflight' = inflight \ {0}
  /\ sinceSettle' = 0
  /\ LET outcome == GeocodeSettle(resp)
     IN  IF unit.fn = "geocodeAddress" \/ outcome.state = "rejected"
         THEN /\ unit' = Returned(unit.fn, unit.arg, resp, outcome)
              /\ UNCHANGED <<held, timer>>
         ELSE /\ unit' = [unit EXCEPT !.phase = "delay", !.resp = resp]
              /\ held' = Some(outcome)
              /\ timer' = Some(RateLimitWait)
  /\ UNCHANGED <<appVars, runVars, obsVars, downloaded>>
  /\ UNCHANGED lateVars

\* The delay of geocodeAddressWithRateLimit is over: it returns the result.
UnitDelayElapsed ==
  /\ unit.phase = "delay"
  /\ TimerDue
  /\ timer' = None
  /\ held' = None
  /\ unit' = Returned(unit.fn, unit.arg, unit.resp, held[1])
  /\ UNCHANGED <<appVars, runVars, inflight, sinceSettle, obsVars, downloaded>>
  /\ UNCHANGED lateVars

\* processAddressRow(row, mapping) with the client mocked to settle as outcome.
CallProcessAddressRow(row, mapping, outcome) ==
  /\ unit = NoCall
  /\ unit' = Returned("processAddressRow",
                      [row |-> row, mapping |-> mapping, outcome |-> outcome], NoResp,
                      Fulfilled(Some(processAddressRow(row, mapping, outcome))))
  /\ UNCHANGED <<appVars, runVars, envVars, obsVars, downloaded>>
  /\ UNCHANGED lateVars

CallIsProcessedAddressSuccessful(processedAddress) ==
  /\ unit = NoCall
  /\ unit' = Returned("isProcessedAddressSuccessful", processedAddress, NoResp,
                      isProcessedAddressSuccessful(processedAddress))
  /\ UNCHANGED <<appVars, runVars, envVars, obsVars, downloaded>>
  /\ UNCHANGED lateVars

CallCreateProcessingSummary(addrs) ==
  /\ unit = NoCall
  /\ unit' = Returned("createProcessingSummary", addrs, NoResp, createProcessingSummary(addrs))
  /\ UNCHANGED <<appVars, runVars, envVars, obsVars, downloaded>>
  /\ UNCHANGED lateVars

CallConvertToGeoJSON(addrs, metadataColumns) ==
  /\ unit = NoCall
  /\ unit' = Returned("convertToGeoJSON",
                      [addrs |-> addrs, metadataColumns |-> metadataColumns], NoResp,
                      convertToGeoJSON(addrs, metadataColumns))
  /\ UNCHANGED <<appVars, runVars, envVars, obsVars, downloaded>>
  /\ UNCHANGED lateVars

CallBuildAddressString(street, zipCode, city, country) ==
  /\ unit = NoCall
  /\ unit' = Returned("buildAddressString", <<street, zipCode, city, country>>, NoResp,
                      buildAddressString(street, zipCode, city, country))
  /\ UNCHANGED <<appVars, runVars, envVars, obsVars, downloaded>>
  /\ UNCHANGED lateVars

CallAutoDetectColumns(hdrs) ==
  /\ unit = NoCall
  /\ unit' = Returned("autoDetectColumns", hdrs, NoResp, autoDetectColumns(hdrs))
  /\ UNCHANGED <<appVars, runVars, envVars, obsVars, downloaded>>
  /\ UNCHANGED lateVars

CallDownloadFailedAddressesCSV(failedAddresses) ==
  /\ unit = NoCall
  /\ unit' = Returned("downloadFailedAddressesCSV", failedAddresses, NoResp, <<>>)
  /\ downloaded' = downloadFailedAddressesCSV(failedAddresses)
  /\ UNCHANGED <<appVars, runVars, envVars, obsVars>>
  /\ UNCHANGED lateVars

\* The next test starts from cleared mocks.
UnitReset ==
  /\ unit.phase = "returned"
  /\ unit' = NoCall
  /\ requested' = <<>>
  /\ sinceSettle' = 0
  /\ downloaded' = <<>>
  /\ UNCHANGED <<appVars, runVars, inflight, held, timer, emitted, cancelled>>
  /\ UNCHANGED lateVars

UnitNext ==
  \/ \E address \in TestAddresses : CallGeocodeAddress(address)
  \/ \E address \in TestAddresses : CallGeocodeAddressWithRateLimit(address)
  \/ \E resp \in Responses : UnitFetchSettles(resp)
  \/ Tick
  \/ UnitDelayElapsed
  \/ \E row \in Range(RowKinds), mapping \in SelectorMappings, outcome \in MockedOutcomes :
       CallProcessAddressRow(row, mapping, outcome)
  \/ \E processedAddress \in TestRecords : CallIsProcessedAddressSuccessful(processedAddress)
  \/ \E addrs \in TestLists \cup TitleLists, metadataColumns \in TestMetadata :
       CallConvertToGeoJSON(addrs, metadataColumns)
  \/ \E addrs \in TestLists : CallCreateProcessingSummary(addrs)
  \/ \E failedAddresses \in FailedLists : CallDownloadFailedAddressesCSV(failedAddresses)
  \/ \E hdrs \in TestHeaderLists : CallAutoDetectColumns(hdrs)
  \/ \E street, zipCode, city, country \in TestParts :
       CallBuildAddressString(street, zipCode, city, country)
  \/ UnitReset

UnitSpec == Init /\ [][UnitNext]_vars

\* ------------------------------------------------------------------ claims
\* Counting, independently of the loop's counters.
HasNoError(processedAddress) ==
  processedAddress.error = None \/ processedAddress.error = Some("")
RowSucceeded(processedAddress) ==
  processedAddress.geocodeResult # None /\ HasNoError(processedAddress)
TrueSuccessful(addrs) == Cardinality({k \in 1..Len(addrs) : RowSucceeded(addrs[k])})
TrueFailed(addrs) == Cardinality({k \in 1..Len(addrs) : ~RowSucceeded(addrs[k])})
RunActive == pc \in {"row", "fetch", "delay"}

\* C1: when a run over N rows has completed, the last snapshot the loop
\* published (and the progress shown) has total = N, processed = N,
\* successful + failed = N, and successful and failed are the numbers of
\* successful and failed rows collected.
C1_FinalSnapshotExact ==
  pc = "done" =>
    /\ emitted # <<>>
    /\ LET last == emitted[Len(emitted)]
           N == Len(csvData)
       IN  /\ last.total = N
           /\ last.processed = N
           /\ last.successful + last.failed = N
           /\ last.successful = TrueSuccessful(processedAddresses)
           /\ last.failed = TrueFailed(processedAddresses)
           /\ progress = last

\* A completed run over 11 rows, with an intermediate and a final snapshot
\* and rows of both kinds.
C1_Witness ==
  /\ pc = "done"
  /\ Len(csvData) = ProgressBatch + 1
  /\ Len(emitted) = 2
  /\ progress.successful > 0
  /\ progress.failed > 0

\* C2: at most one request is outstanding, and a request is issued only when
\* no request and no delay is pending, for a later row than every earlier
\* request, and, unless it is the run's first, when at least RATE_LIMIT_DELAY
\* ms have passed since the previous request completed.
RequestIssued == Len(requested') = Len(requested) + 1

C2_Sequential ==
  /\ [](Cardinality(inflight) <= 1)
  /\ [][RequestIssued =>
          /\ inflight = {}
          /\ timer = None
          /\ \A k \in 1..Len(requested) : requested[k] < requested'[Len(requested')]
          /\ (requested # <<>> => sinceSettle >= RATE_LIMIT_DELAY)]_vars

\* The request for a second row is outstanding.
C2_Witness ==
  /\ pc = "fetch"
  /\ Len(requested) >= 2
  /\ inflight = {requested[Len(requested)]}

\* C3: once cancel has been clicked in a run, the run issues no further
\* request.
C3_CancelStopsRequests ==
  [][cancelled /\ RunActive => Len(requested') <= Len(requested)]_vars

\* C4: an uncancelled completed run has collected one record per input row,
\* in input order, each wrapping its row.
C4_EveryRowCollected ==
  (pc = "done" /\ ~cancelled) =>
    /\ Len(results) = Len(csvData)
    /\ \A k \in 1..Len(csvData) : results[k].originalData = csvData[k]
    /\ processedAddresses = results
    /\ progress.processed = Len(csvData)

\* A completed uncancelled run with a found, a not found and an empty row.
C4_Witness ==
  /\ pc = "done"
  /\ ~cancelled
  /\ \E k \in 1..Len(results) : results[k].geocodeResult # None
  /\ \E k \in 1..Len(results) : results[k].error = Some("Address could not be found")
  /\ \E k \in 1..Len(results) : results[k].error = Some("Empty address")

\* C5: a row whose mapped street, ZIP and city cells are all absent, empty or
\* blank is collected with the error "Empty address" and no result, and no
\* request is ever issued for it.
BlankCell(row, col) ==
  \/ col = None
  \/ col[1] \notin DOMAIN row
  \/ \A k \in 1..Len(row[col[1]]) : row[col[1]][k] = " "

AllBlank(row, mapping) ==
  BlankCell(row, mapping.street) /\ BlankCell(row, mapping.zipCode) /\ BlankCell(row, mapping.city)

C5_EmptyAddressNoRequest ==
  \A k \in 1..Len(csvData) :
    AllBlank(csvData[k], columnMapping) =>
      /\ \A r \in 1..Len(requested) : requested[r] # k - 1
      /\ k <= Len(results) =>
           /\ results[k].error = Some("Empty address")
           /\ results[k].geocodeResult = None
           /\ results[k].coordinates = None

\* Rows with blank cells, with a missing cell and with an unmapped column
\* have been collected after a request for an earlier row.
C5_Witness ==
  /\ pc = "done"
  /\ requested # <<>>
  /\ columnMapping.zipCode = None
  /\ \E k \in 1..Len(results) :
       /\ AllBlank(csvData[k], columnMapping)
       /\ hPLZ \in DOMAIN csvData[k]
       /\ ~BlankCell(csvData[k], Some(hPLZ))
  /\ \E k \in 1..Len(results) :
       AllBlank(csvData[k], columnMapping) /\ hOrt \notin DOMAIN csvData[k]

BlankAddress(address) == \A k \in 1..Len(address) : address[k] = " "
ClientCall == unit.fn \in {"geocodeAddress", "geocodeAddressWithRateLimit"}

\* C6: for a blank address either entry point of the client issues no
\* request and starts no delay, and resolves to null.
C6_BlankAddressNoRequestNoDelay ==
  (ClientCall /\ BlankAddress(unit.arg)) =>
    /\ requested = <<>>
    /\ inflight = {}
    /\ timer = None
    /\ unit.phase = "returned" => unit.ret = Fulfilled(None)

\* C7: a call of the client for a non-blank address never ends rejected, and
\* when the request was rejected, answered with a non-success status, with
\* an unparsable body or with no match, it resolves to null.
FailedResponse(resp) ==
  \/ resp.kind \in {"network", "status", "badjson", "nullbody"}
  \/ resp.kind = "body" /\ resp.data = <<>>

C7_ClientNeverRejects ==
  (ClientCall /\ ~BlankAddress(unit.arg) /\ unit.phase = "returned") =>
    /\ unit.ret.state = "fulfilled"
    /\ FailedResponse(unit.resp) => unit.ret.value = None
    /\ ~FailedResponse(unit.resp) => unit.ret.value # None

\* geocodeAddress has returned after a response with a non-success status.
C7_Witness ==
  /\ unit.fn = "geocodeAddress"
  /\ unit.phase = "returned"
  /\ ~BlankAddress(unit.arg)
  /\ unit.resp.kind = "status"

C9_FeaturesOfSuccessfulRows ==
  (unit.fn = "convertToGeoJSON" /\ unit.phase = "returned") =>
    LET addrs == unit.arg.addrs
        keep == {k \in 1..Len(addrs) : RowSucceeded(addrs[k])}
        features == unit.ret.features
    IN  /\ Len(features) = Cardinality(keep)
        /\ \A k \in keep :
             LET f == features[Cardinality({j \in keep : j <= k})]
             IN  /\ f.geometry.coordinates[1] = addrs[k].geocodeResult[1].lon
                 /\ f.geometry.coordinates[2] = addrs[k].geocodeResult[1].lat
                 /\ f.geometry.coordinates = <<addrs[k].coordinates[1][2], addrs[k].coordinates[1][1]>>

\* convertToGeoJSON has returned two features for a list of three records
\* whose middle one carries a result and an error.
C9_Witness ==
  /\ unit.fn = "convertToGeoJSON"
  /\ unit.phase = "returned"
  /\ Len(unit.arg.addrs) = 3
  /\ unit.arg.addrs[1].geocodeResult = Some(Result1) /\ unit.arg.addrs[1].error = None
  /\ unit.arg.addrs[2].geocodeResult # None /\ unit.arg.addrs[2].error = Some("Some error")
  /\ unit.arg.addrs[3].geocodeResult = Some(Result2) /\ unit.arg.addrs[3].error = None
  /\ Len(unit.ret.features) = 2

\* C10: isProcessedAddressSuccessful is true exactly for a record with a
\* result and no error (no error text, or an empty one); false for a record
\* with both, and for a record with neither.
C10_SuccessfulIffResultAndNoError ==
  (unit.fn = "isProcessedAddressSuccessful" /\ unit.phase = "returned") =>
    /\ unit.ret = (unit.arg.geocodeResult # None /\ HasNoError(unit.arg))
    /\ (unit.arg.geocodeResult # None /\ ~HasNoError(unit.arg)) => unit.ret = FALSE
    /\ (unit.arg.geocodeResult = None /\ unit.arg.error = None) => unit.ret = FALSE

\* isProcessedAddressSuccessful has returned false for a record with a
\* result and an error.
C10_Witness ==
  /\ unit.fn = "isProcessedAddressSuccessful"
  /\ unit.phase = "returned"
  /\ unit.arg.geocodeResult # None
  /\ unit.arg.error = Some("Some error")
  /\ unit.ret = FALSE

\* The causes of a pre-flight error, for what the start handler passes to
\* the validation (ZIP, street and city).
PassedColumns ==
  {c \in {columnMapping.zipCode, columnMapping.street, columnMapping.city} :
     c # None /\ c # Some(<<>>)}
NoHeaders == headers = <<>>
NothingSelected == PassedColumns = {}
AbsentColumns == {c \in PassedColumns : \A k \in 1..Len(headers) : headers[k] # c[1]}
PreflightError == NoHeaders \/ NothingSelected \/ AbsentColumns # {}
TextsOf(messages) == {messages[k].text : k \in 1..Len(messages)}

\* C11: when the validation finds an error (no headers, no address column
\* selected, a selected column that is not a header), a call of the start
\* handler appends the messages for the causes to the error list, issues no
\* request and leaves the step, isProcessing, progress and
\* processedAddresses as they are.
C11_ValidationErrorsBlock ==
  [][(handleStartProcessing /\ PreflightError) =>
       /\ Len(errors') > Len(errors)
       /\ SubSeq(errors', 1, Len(errors)) = errors
       /\ TextsOf(SubSeq(errors', Len(errors) + 1, Len(errors'))) =
            (IF NoHeaders THEN {"No column headers found"} ELSE {}) \cup
            (IF NothingSelected
             THEN {"At least one address component (ZIP, street, city, or country) must be selected"}
             ELSE {}) \cup
            (IF AbsentColumns # {} THEN {"Invalid columns selected: "} ELSE {})
       /\ UNCHANGED <<currentStep, isProcessing, progress, processedAddresses>>
       /\ UNCHANGED <<pc, inflight, requested>>]_vars

\* A file is loaded, a mapping names a column the file lacks, the start
\* handler was called and its message is in the list.
C11_Witness ==
  /\ currentStep = "preview"
  /\ AbsentColumns # {}
  /\ "Invalid columns selected: " \in TextsOf(errors)
  /\ pc = "idle"

\* The columns a mapping assigns, the country included.
AssignedColumns ==
  {c \in {columnMapping.zipCode, columnMapping.street, columnMapping.city, columnMapping.country} :
     c # None /\ c # Some(<<>>)}
AssignedToHeaders ==
  /\ AssignedColumns # {}
  /\ \A c \in AssignedColumns : \E k \in 1..Len(headers) : headers[k] = c[1]

\* C12: on the preview step, a mapping that assigns at least one of ZIP,
\* street, city and country, each to a header of the file, passes the
\* validation of the start handler and the batch can be started (the Start
\* button is enabled), also when only the country is assigned.
C12_AnyAddressColumnStarts ==
  (currentStep = "preview" /\ pc = "idle" /\ AssignedToHeaders) =>
    (StartEnabled /\ ~PreflightError /\ ENABLED StartProcessing)

\* The export function was called with this argument and has returned.
Exported(failedAddresses) ==
  /\ unit.fn = "downloadFailedAddressesCSV"
  /\ unit.phase = "returned"
  /\ unit.arg = failedAddresses

\* C13: downloadFailedAddressesCSV called with an empty list hands nothing
\* to the browser: no CSV content, no blob, no link; it returns normally.
C13_EmptyExportDoesNothing ==
  Exported(<<>>) => (downloaded = <<>> /\ unit.ret = <<>>)

C13_Witness == Exported(<<>>) /\ downloaded = <<>>

\* The lines of a CSV text as written, each a sequence of cells.
LinesOf(text) == ParseFields(text, 1, <<>>, <<>>)

\* The cell a row shows under a column: its value, empty when the row lacks
\* the column.
CellOf(row, column) == IF column \in DOMAIN row THEN row[column] ELSE <<>>

\* The first of the rows that has the column, and the place of the column
\* among the keys of a row.
FirstRowWith(rows, column) ==
  CHOOSE k \in 1..Len(rows) :
    column \in DOMAIN rows[k] /\ \A j \in 1..(k - 1) : column \notin DOMAIN rows[j]
PlaceIn(row, column) == CHOOSE j \in 1..Len(ObjectKeys(row)) : ObjectKeys(row)[j] = column

\* hdr lists the columns of the rows, each once, in order of first
\* appearance: by the row that has the column first, then by the place of
\* the column in that row.
InFirstAppearanceOrder(hdr, rows) ==
  /\ Range(hdr) = UNION {DOMAIN rows[k] : k \in 1..Len(rows)}
  /\ \A a, b \in 1..Len(hdr) : a < b =>
       /\ hdr[a] # hdr[b]
       /\ LET ra == FirstRowWith(rows, hdr[a])
              rb == FirstRowWith(rows, hdr[b])
          IN  ra < rb \/ (ra = rb /\ PlaceIn(rows[ra], hdr[a]) < PlaceIn(rows[rb], hdr[b]))

SameCells(parsedRow, original, columns) ==
  /\ DOMAIN parsedRow = columns
  /\ DOMAIN original \subseteq columns
  /\ \A c \in columns : parsedRow[c] = CellOf(original, c)

RECURSIVE FailedInputRows(_)
FailedInputRows(n) ==
  IF n = 0 THEN <<>>
  ELSE IF RowSucceeded(results[n]) THEN FailedInputRows(n - 1)
  ELSE Append(FailedInputRows(n - 1), csvData[n])

\* C16: after a completed run, the failure CSV downloaded on the results
\* step has as many data rows as the final failed count, and they are the
\* input rows that failed, in input order.
C16_FailureCsvMatchesFailedCount ==
  (currentStep = "results" /\ pc = "done" /\ downloaded # <<>>) =>
    LET parsed == Parse(downloaded[1].content)
        failedRows == FailedInputRows(Len(csvData))
    IN  /\ Len(parsed.data) = progress.failed
        /\ Len(parsed.data) = failedCount
        /\ Len(failedRows) = Len(parsed.data)
        /\ \A k \in 1..Len(failedRows) :
             SameCells(parsed.data[k], failedRows[k], Range(parsed.headers))

\* Two rows: the first was found, the second has a blank address; one
\* failed row is counted and the CSV holds the second row.
C16_Witness ==
  /\ currentStep = "results" /\ pc = "done" /\ downloaded # <<>>
  /\ Len(csvData) = 2
  /\ RowSucceeded(processedAddresses[1])
  /\ processedAddresses[2].error = Some("Empty address")
  /\ progress.failed = 1
  /\ Len(Parse(downloaded[1].content).data) = 1

\* C17: a call of autoDetectColumns changes nothing but its own result,
\* and each of the four fields of the result is undefined or one of the
\* headers given, exactly as given (blanks and case kept); for the empty
\* list all four are undefined.
C17_DetectedAreGivenHeaders ==
  [][(unit'.fn = "autoDetectColumns" /\ unit'.phase = "returned" /\ unit.phase = "ready") =>
       /\ UNCHANGED <<appVars, runVars, envVars, obsVars, downloaded>>
       /\ \A field \in {unit'.ret.zipCode, unit'.ret.street, unit'.ret.city, unit'.ret.country} :
            \/ field = None
            \/ \E k \in 1..Len(unit'.arg) : field = Some(unit'.arg[k])
       /\ unit'.arg = <<>> =>
            unit'.ret = [zipCode |-> None, street |-> None, city |-> None, country |-> None]]_vars

\* Headers with blanks around them and in capitals were detected and are
\* returned as given.
C17_Witness ==
  /\ unit.fn = "autoDetectColumns" /\ unit.phase = "returned"
  /\ unit.ret.zipCode = Some(<<" ", "P", "L", "Z", " ">>)
  /\ unit.ret.city = Some(<<"S", "T", "A", "D", "T">>)
  /\ unit.ret.street = None

\* A string without the blanks at its ends.
Stripped(str) ==
  LET inked == {k \in 1..Len(str) : str[k] # " "}
  IN  IF inked = {} THEN <<>>
      ELSE SubSeq(str, CHOOSE k \in inked : \A j \in inked : k <= j,
                       CHOOSE k \in inked : \A j \in inked : k >= j)

\* The components that count: given, and not empty once stripped.
Counts(part) == part # None /\ Stripped(part[1]) # <<>>

\* The address of the components from the n-th on.
RECURSIVE AddressFrom(_, _)
AddressFrom(parts, n) ==
  IF n > Len(parts) THEN <<>>
  ELSE LET rest == AddressFrom(parts, n + 1)
       IN  IF ~Counts(parts[n]) THEN rest
           ELSE IF rest = <<>> THEN Stripped(parts[n][1])
           ELSE Stripped(parts[n][1]) \o <<",", " ">> \o rest

\* C18: buildAddressString returns the components street, postal code,
\* city, country in this order, without those that are undefined or blank,
\* each stripped of the blanks at its ends, with ", " between them; the
\* empty string when none counts.
C18_AddressString ==
  (unit.fn = "buildAddressString" /\ unit.phase = "returned") =>
    /\ unit.ret = AddressFrom(unit.arg, 1)
    /\ (\A k \in 1..4 : ~Counts(unit.arg[k])) => unit.ret = <<>>

\* The street is blank and dropped; postal code, city and country are
\* stripped and joined in this order.
C18_Witness ==
  /\ unit.fn = "buildAddressString" /\ unit.phase = "returned"
  /\ unit.arg = <<Some(<<" ", " ">>), Some(<<" ", "b", " ", "c", " ">>), Some(<<"a">>), Some(<<"d", ",">>)>>
  /\ unit.ret = <<"b", " ", "c", ",", " ", "a", ",", " ", "d", ",">>

\* The row the loop is at has a non-empty address.
RowHasAddress == Stripped(RowAddress(csvData[i + 1], columnMapping)) # <<>>
TimesRequested(row) == Cardinality({k \in 1..Len(requested) : requested[k] = row})

\* C19: in a run, the step that completes a row with a non-empty address
\* ends the one delay that followed the row's one request; a row with an
\* empty address is completed at once, without request or delay.  A delay
\* starts only when the request of the row has settled and lasts
\* RATE_LIMIT_DELAY.  No row is requested twice, and a recorded row
\* (failed or not) is never changed later in the run.
C19_OneRequestOneDelayNoRetry ==
  [][/\ (RunActive /\ i' = i + 1) =>
         IF RowHasAddress
         THEN /\ pc = "delay" /\ timer = Some(0) /\ timer' = None
              /\ TimesRequested(i) = 1 /\ requested' = requested
         ELSE /\ pc = "row" /\ timer = None /\ timer' = None
              /\ TimesRequested(i) = 0 /\ requested' = requested
     /\ (RunActive /\ timer = None /\ timer' # None) =>
         /\ pc = "fetch" /\ i \in inflight /\ RowHasAddress
         /\ timer' = Some(RATE_LIMIT_DELAY) /\ i' = i
     /\ (RunActive /\ requested' # requested) =>
         /\ requested' = Append(requested, i) /\ TimesRequested(i) = 0
         /\ RowHasAddress /\ pc = "row"
     /\ (pc # "idle" /\ pc' # "idle") =>
         /\ Len(results') >= Len(results)
         /\ SubSeq(results', 1, Len(results)) = results]_vars

\* A run is complete in which a row was requested and failed, another was
\* requested and found, and a row with an empty address was not requested.
C19_Witness ==
  /\ pc = "done"
  /\ \E a, b, c \in 1..Len(results) :
       /\ TimesRequested(a - 1) = 1 /\ results[a].error = Some("Address could not be found")
       /\ TimesRequested(b - 1) = 1 /\ RowSucceeded(results[b])
       /\ TimesRequested(c - 1) = 0 /\ results[c].error = Some("Empty address")

\* The snapshot due after the k-th row, from the rows recorded so far.
SnapshotOf(addrs, k) ==
  [total |-> Len(csvData), processed |-> k,
   successful |-> TrueSuccessful(addrs), failed |-> TrueFailed(addrs)]

\* C20: in a run over N rows, the step that completes the k-th row
\* publishes a snapshot exactly when k is a multiple of 10 or k = N.  The
\* snapshot has processed = k and the exact numbers of successful and
\* failed rows among the first k, and comes with the list of the k rows
\* recorded so far.  No other step of the run publishes one.
C20_SnapshotEveryTenthAndLast ==
  [][/\ (RunActive /\ i' = i + 1) =>
         LET k == i + 1
         IN  /\ Len(results') = k
             /\ IF k % 10 = 0 \/ k = Len(csvData)
                THEN /\ emitted' = Append(emitted, SnapshotOf(results', k))
                     /\ progress' = SnapshotOf(results', k)
                     /\ processedAddresses' = results'
                     /\ Len(processedAddresses') = k
                ELSE /\ emitted' = emitted
                     /\ progress' = progress
                     /\ processedAddresses' = processedAddresses
     /\ (RunActive /\ i' = i) => emitted' = emitted]_vars

\* A run over 12 rows is complete: snapshots were published after the 10th
\* and after the 12th row, and after no other.
C20_Witness ==
  /\ pc = "done"
  /\ Len(csvData) = 12
  /\ Len(emitted) = 2
  /\ emitted[1].processed = 10
  /\ emitted[2].processed = 12
  /\ emitted[1].successful > 0 /\ emitted[1].failed > 0

\* The request of the row the loop is at fails in transport or parsing.
TransportFailure(resp) == resp.kind \in {"network", "status", "badjson"}
NotFound == Some("Address could not be found")

\* C21: in a run, when the request for a row fails with a rejected fetch, a
\* non-OK status or an unparsable body, the client resolves to null, and
\* the row is recorded without result and with the error "Address could
\* not be found"; a requested row never carries another error text.
C21_TransportFailuresAreNotFound ==
  [][/\ (\E resp \in Responses : TransportFailure(resp) /\ FetchSettles(resp)) =>
         /\ pc' = "delay" /\ i' = i /\ results' = results
         /\ held' = Some(Fulfilled(None))
     /\ (RunActive /\ i' = i + 1 /\ held = Some(Fulfilled(None))) =>
         /\ results'[i + 1].geocodeResult = None
         /\ results'[i + 1].error = NotFound
     /\ (RunActive /\ i' = i + 1 /\ TimesRequested(i) = 1) =>
         \/ RowSucceeded(results'[i + 1])
         \/ results'[i + 1].geocodeResult = None /\ results'[i + 1].error = NotFound]_vars

\* A run is complete in which requests failed and none of the rows shows
\* another error than the two generic ones.
C21_Witness ==
  /\ pc = "done"
  /\ Len(requested) >= 3
  /\ \A k \in 1..Len(requested) : results[requested[k] + 1].error = NotFound

\* A field of a record is set when it was assigned, whatever the value.
IsSet(field) == field # None

\* C22: a record returned by processAddressRow has either a result or an
\* error, never both and never neither; it has coordinates exactly when it
\* has a result, and they are the result's latitude and longitude in this
\* order.
C22_ResultXorError ==
  (unit.fn = "processAddressRow" /\ unit.phase = "returned") =>
    LET rec == unit.ret.value[1]
    IN  /\ IsSet(rec.geocodeResult) # IsSet(rec.error)
        /\ IsSet(rec.coordinates) = IsSet(rec.geocodeResult)
        /\ IsSet(rec.geocodeResult) =>
             rec.coordinates = Some(<<rec.geocodeResult[1].lat, rec.geocodeResult[1].lon>>)

\* A record with a result, the coordinates 52, 13 and no error was returned.
C22_Witness ==
  /\ unit.fn = "processAddressRow" /\ unit.phase = "returned"
  /\ unit.ret.value[1].geocodeResult = Some(Result2)
  /\ unit.ret.value[1].coordinates = Some(<<52, 13>>)
  /\ unit.ret.value[1].error = None

\* The lower-cased header without the blanks at its ends.
Normal(header) == Stripped(ToLowerCase(header))

\* str holds pattern as a run of consecutive characters.
Holds(str, pattern) ==
  \E from \in 0..(Len(str) - Len(pattern)) :
    \A j \in 1..Len(pattern) : str[from + j] = pattern[j]

\* The pairs (pattern, header) that match exactly, and those that match by
\* containment.
ExactPairs(hdrs, patterns) ==
  {pair \in (1..Len(patterns)) \X (1..Len(hdrs)) : Normal(hdrs[pair[2]]) = patterns[pair[1]]}
SubstringPairs(hdrs, patterns) ==
  {pair \in (1..Len(patterns)) \X (1..Len(hdrs)) : Holds(Normal(hdrs[pair[2]]), patterns[pair[1]])}

\* The pair with the earliest pattern and, for it, the earliest header.
Earliest(pairs) ==
  CHOOSE pair \in pairs :
    \A other \in pairs : pair[1] < other[1] \/ (pair[1] = other[1] /\ pair[2] <= other[2])

\* What a field is to be for the headers and the patterns of the field.
Preferred(hdrs, patterns) ==
  IF ExactPairs(hdrs, patterns) # {} THEN Some(hdrs[Earliest(ExactPairs(hdrs, patterns))[2]])
  ELSE IF SubstringPairs(hdrs, patterns) # {}
       THEN Some(hdrs[Earliest(SubstringPairs(hdrs, patterns))[2]])
  ELSE None

\* C23: each field autoDetectColumns returns is, when some header equals a
\* pattern of the field (lower-cased, trimmed), the first header equal to
\* the earliest such pattern, whatever headers merely contain a pattern;
\* else, when some header contains a pattern, the first header containing
\* the earliest such pattern; else undefined.
C23_ExactBeforeSubstring ==
  (unit.fn = "autoDetectColumns" /\ unit.phase = "returned") =>
    /\ unit.ret.zipCode = Preferred(unit.arg, zipPatterns)
    /\ unit.ret.street = Preferred(unit.arg, streetPatterns)
    /\ unit.ret.city = Preferred(unit.arg, cityPatterns)
    /\ unit.ret.country = Preferred(unit.arg, countryPatterns)

\* Headers that contain a pattern come before the headers that equal one:
\* the latter are returned.
C23_Witness ==
  /\ unit.fn = "autoDetectColumns" /\ unit.phase = "returned"
  /\ unit.arg = <<<<"N", "a", "m", "e">>, <<"P", "L", "Z", " ", "C", "o", "d", "e">>, <<"P", "L", "Z">>, <<"S", "t", "r", "e", "e", "t", " ", "N", "a", "m", "e">>, <<"S", "t", "r", "e", "e", "t">>, <<"C", "i", "t", "y", " ", "A", "r", "e", "a">>, <<"C", "i", "t", "y">>>>
  /\ unit.ret.zipCode = Some(<<"P", "L", "Z">>)
  /\ unit.ret.street = Some(<<"S", "t", "r", "e", "e", "t">>)
  /\ unit.ret.city = Some(<<"C", "i", "t", "y">>)

\* The k-th found record of a list, the one the k-th feature is built from.
FoundAt(addrs, k) ==
  CHOOSE j \in 1..Len(addrs) :
    RowSucceeded(addrs[j]) /\ Cardinality({m \in 1..j : RowSucceeded(addrs[m])}) = k

\* The title of a feature.
TitleOf(feature) == feature.properties[pName].string

\* The display name resolved for a record: built from the address
\* components of its result, empty without them.
ResolvedName(addr) ==
  IF addr.geocodeResult[1].address = None THEN <<>>
  ELSE constructDisplayName(addr.geocodeResult[1].address[1])

\* The first column of the row, in key order, whose lower-cased name holds
\* the pattern.
HoldingColumns(row, pattern) == {c \in DOMAIN row : Holds(ToLowerCase(c), pattern)}
FirstHolding(row, pattern) ==
  CHOOSE c \in HoldingColumns(row, pattern) :
    \A d \in HoldingColumns(row, pattern) : PlaceIn(row, c) <= PlaceIn(row, d)

\* The patterns for which a column is found, and those whose column has a
\* value that is not blank.
FoundPatterns(row) == {n \in 1..Len(nameColumns) : HoldingColumns(row, nameColumns[n]) # {}}
NamingPatterns(row) ==
  {n \in FoundPatterns(row) : Stripped(row[FirstHolding(row, nameColumns[n])]) # <<>>}
Least(numbers) == CHOOSE n \in numbers : \A m \in numbers : n <= m

\* The title when no column gives it: the display name, else the first
\* selected metadata value that is not blank, else "Address".
FallbackTitle(row, metadataColumns, displayName) ==
  LET valued == {k \in 1..Len(metadataColumns) :
                   /\ metadataColumns[k] \in DOMAIN row
                   /\ Stripped(row[metadataColumns[k]]) # <<>>}
  IN  IF displayName # <<>> THEN displayName
      ELSE IF valued # {} THEN Stripped(row[metadataColumns[Least(valued)]])
      ELSE <<"A", "d", "d", "r", "e", "s", "s">>

\* C24 as stated: the title of a feature is the value of the column found
\* for the earliest entity-name pattern that has a column; only when no
\* pattern has a column is it the display name, else the first non-blank
\* selected metadata value, else "Address"; and it is never empty.
C24_TitleOfFirstNamedColumn ==
  (unit.fn = "convertToGeoJSON" /\ unit.phase = "returned") =>
    \A k \in 1..Len(unit.ret.features) :
      LET addr == unit.arg.addrs[FoundAt(unit.arg.addrs, k)]
          row == addr.originalData
          title == TitleOf(unit.ret.features[k])
      IN  /\ title # <<>>
          /\ IF FoundPatterns(row) # {}
             THEN title = Stripped(row[FirstHolding(row, nameColumns[Least(FoundPatterns(row))])])
             ELSE title = FallbackTitle(row, unit.arg.metadataColumns, ResolvedName(addr))

\* C24: the title of a feature is the trimmed value of the column found for
\* the earliest entity-name pattern whose first column has a value that is
\* not blank; when no pattern has such a column it is the display name built
\* from the address components, else the first non-blank selected metadata
\* value, else "Address"; it is never empty.
C24_TitleFallbackChain ==
  (unit.fn = "convertToGeoJSON" /\ unit.phase = "returned") =>
    \A k \in 1..Len(unit.ret.features) :
      LET addr == unit.arg.addrs[FoundAt(unit.arg.addrs, k)]
          row == addr.originalData
          title == TitleOf(unit.ret.features[k])
      IN  /\ title # <<>>
          /\ IF NamingPatterns(row) # {}
             THEN title = Stripped(row[FirstHolding(row, nameColumns[Least(NamingPatterns(row))])])
             ELSE title = FallbackTitle(row, unit.arg.metadataColumns, ResolvedName(addr))

\* A record whose Name column is blank and whose Firma column is not: the
\* title is the company.
C24_Witness ==
  /\ unit.fn = "convertToGeoJSON" /\ unit.phase = "returned"
  /\ Len(unit.arg.addrs) = 1
  /\ unit.arg.addrs[1].originalData = (hFirma :> <<"f", " ">>) @@ (hName :> <<" ">>)
  /\ Len(unit.ret.features) = 1
  /\ TitleOf(unit.ret.features[1]) = <<"f">>

\* C25: for every list of records, each record is either one the feature
\* collection keeps (a result and no error) or one the results page hands to
\* the failure export (no result, or an error), never both; the number of
\* features convertToGeoJSON builds is the summary's successful, the number
\* of records for the failure export is its failed, and successful + failed
\* is its total, the length of the list.
C25_SuccessFailurePartition ==
  (unit.fn = "createProcessingSummary" /\ unit.phase = "returned") =>
    /\ \A k \in 1..Len(unit.arg) :
         HasResultAndNoError(unit.arg[k]) # IsFailedAddress(unit.arg[k])
    /\ Len(convertToGeoJSON(unit.arg, <<>>).features) = unit.ret.successful
    /\ Len(FailedAddressesOf(unit.arg)) = unit.ret.failed
    /\ unit.ret.successful + unit.ret.failed = unit.ret.total
    /\ unit.ret.total = Len(unit.arg)
    /\ unit.ret.successful = TrueSuccessful(unit.arg)

\* A summary of three records: one found, one with a result and an error,
\* one with neither.
C25_Witness ==
  /\ unit.fn = "createProcessingSummary" /\ unit.phase = "returned"
  /\ Len(unit.arg) = 3
  /\ unit.arg[1].geocodeResult # None /\ unit.arg[1].error = None
  /\ unit.arg[2].geocodeResult # None /\ unit.arg[2].error = Some("Some error")
  /\ unit.arg[3].geocodeResult = None /\ unit.arg[3].error = None
  /\ unit.ret.successful = 1 /\ unit.ret.failed = 2

\* C26: from the start of a run on, the published progress has total = N,
\* successful + failed = processed and processed <= total; and whenever the
\* run publishes another snapshot, processed is larger than before and
\* neither successful nor failed is smaller.
C26_PublishedProgressGrows ==
  [][pc' # "idle" =>
       /\ progress'.total = Len(csvData')
       /\ progress'.successful + progress'.failed = progress'.processed
       /\ progress'.processed <= progress'.total
       /\ (pc # "idle" /\ progress' # progress) =>
            /\ progress'.processed > progress.processed
            /\ progress'.successful >= progress.successful
            /\ progress'.failed >= progress.failed]_vars

\* A run over twelve rows has published its second snapshot, after the
\* tenth row one with found and failed rows, now the last one with more of
\* both.
C26_Witness ==
  /\ pc = "row" /\ i = 12 /\ Len(csvData) = 12
  /\ Len(emitted) = 2
  /\ progress = emitted[2]
  /\ emitted[1].processed = 10 /\ emitted[2].processed = 12
  /\ emitted[1].successful > 0 /\ emitted[1].failed > 0
  /\ emitted[2].successful > emitted[1].successful
  /\ emitted[2].failed > emitted[1].failed

\* The run has yet to issue the request of a row: one of the rows the loop
\* has not completed has a non-empty address and has not been requested.
WorkRemains ==
  /\ RunActive
  /\ \E k \in (i + 1)..Len(csvData) :
       /\ Stripped(RowAddress(csvData[k], columnMapping)) # <<>>
       /\ TimesRequested(k - 1) = 0

\* C27: while a started run has yet to issue the request of a row,
\* isProcessing is true and the beforeunload listener is installed.
C27_GuardWhileWorkRemains ==
  WorkRemains => isProcessing /\ BeforeUnloadInstalled

\* C28: while the loop of a run is iterating, cancelled or not, the Start
\* Geocoding button is not on offer, so that no second run can be started
\* and the requests of two runs cannot interleave.
C28_OneRunAtATime ==
  RunActive => ~StartOffered

\* The results of a run are shown: one record per row and the collection.
ResultsShown ==
  /\ pc = "done"
  /\ currentStep = "results"
  /\ ~isProcessing
  /\ Len(processedAddresses) = Len(csvData)
  /\ geoJsonData # None

\* C29: when every request settles at some time, a started run leads to the
\* results step with isProcessing false, one record per row in
\* processedAddresses and geoJsonData set.
C29_RunTerminates == RunActive ~> ResultsShown

\* A run over three rows has ended and its results are shown.
C29_Witness ==
  /\ ResultsShown
  /\ Len(csvData) = 3 /\ Len(requested) > 0
  /\ Len(geoJsonData[1].features) + Len(FailedAddressesOf(processedAddresses)) = 3

\* The inputs of a run, and records that keep, index by index, the rows they
\* were made from.
RunInputs == <<csvData, headers, columnMapping, selectedFile>>
OriginalsAreRows(addrs, rows) ==
  /\ Len(addrs) <= Len(rows)
  /\ \A k \in 1..Len(addrs) : addrs[k].originalData = rows[k]

\* C30: a step taken while a run is active, the one that starts it included,
\* leaves csvData, headers, columnMapping and selectedFile as they were, and
\* after it every record collected or published has as originalData the
\* unmodified input row of the same index.
C30_RunLeavesInputs ==
  [][(RunActive \/ RunActive') =>
       /\ UNCHANGED RunInputs
       /\ OriginalsAreRows(results', csvData')
       /\ OriginalsAreRows(processedAddresses', csvData')]_vars

\* A run over rows with cells that have blanks around them has ended with
\* a record for each row, a found one among them, and the inputs in place.
C30_Witness ==
  /\ pc = "done"
  /\ Len(csvData) >= 2
  /\ Len(processedAddresses) = Len(csvData)
  /\ csvData[1][hPLZ] = <<" ", "1", " ">>
  /\ processedAddresses[1].originalData[hPLZ] = <<" ", "1", " ">>
  /\ processedAddresses[1].geocodeResult # None
  /\ selectedFile # None /\ headers = FileHeaders

====
